---- MODULE Spec2Model ----
(***************************************************************************)
(* A model of the t3 table engine (src/table.py, src/pattern.py,           *)
(* src/number.py): tables of fields on a heap, field reads with bindings   *)
(* and the global binding stack, synthesis, matching, copy, call and       *)
(* field assignment.                                                       *)
(*                                                                         *)
(* A table is a heap cell, named by its index in the heap; a field is a    *)
(* record owned by one table (field.table is the owner).  A binding is an  *)
(* object with an identity: copies of a field share the binding object.    *)
(* A Python exception is the err component of a result ("" when none).     *)
(***************************************************************************)
EXTENDS Integers, Sequences, FiniteSets, TLC

VARIABLES heap, stack, last, ops

vars == <<heap, stack, last, ops>>

----------------------------------------------------------------------------
(* Bounds of the model.                                                    *)

MaxOps == 2
MaxData == 3
MaxByte == 1
MaxFields == 4
MaxAnyByte == 2
MaxSession == 14

----------------------------------------------------------------------------
(* Values: None, NULL, Hex numbers (a sequence of bytes), tables (heap     *)
(* references), T3List (a sequence of heap references), Python integers    *)
(* (results of callbacks) and the number T3Number(None) (_int = -1).       *)

Val(k, ds, t, it, n) == [kind |-> k, digits |-> ds, tid |-> t, items |-> it, int |-> n]

None == Val("None", <<>>, 0, <<>>, 0)
NULL == Val("NULL", <<>>, 0, <<>>, 0)
Neg == Val("Neg", <<>>, 0, <<>>, -1)
Hex(ds) == Val("Hex", ds, 0, <<>>, 0)
Tbl(t) == Val("Table", <<>>, t, <<>>, 0)
Lst(it) == Val("List", <<>>, 0, it, 0)
PyInt(n) == Val("Int", <<>>, 0, <<>>, n)

Min(a, b) == IF a < b THEN a ELSE b
Max(a, b) == IF a > b THEN a ELSE b
Front(s) == SubSeq(s, 1, Len(s) - 1)
InSeq(x, s) == \E i \in 1..Len(s) : s[i] = x

RECURSIVE IntOfBytes(_)
IntOfBytes(ds) ==
  IF ds = <<>> THEN 0 ELSE IntOfBytes(Front(ds)) * 256 + ds[Len(ds)]

RECURSIVE BytesOfInt(_)
BytesOfInt(n) ==
  IF n < 256 THEN <<n>> ELSE Append(BytesOfInt(n \div 256), n % 256)

\* T3Number._int of a value that is a number
NumInt(v) == IF v.kind = "Hex" THEN IntOfBytes(v.digits)
             ELSE IF v.kind = "Neg" THEN -1 ELSE 0

IsNumber(v) == v.kind \in {"Hex", "NULL", "Neg"}

\* _int of a number of any length, as its bytes without leading zeros (the
\* integers of Python are unbounded); <<-1>> is -1
RECURSIVE StripZeros(_)
StripZeros(ds) ==
  IF ds # <<>> /\ Head(ds) = 0 THEN StripZeros(Tail(ds)) ELSE ds

NumKey(v) == IF v.kind = "Hex" THEN StripZeros(v.digits)
             ELSE IF v.kind = "Neg" THEN <<-1>> ELSE <<>>

\* Hex(n) for a Python integer n >= 0: an even number of digits, 0 is "00"
HexOfInt(n) == Hex(BytesOfInt(n))

\* len(v) of Python; -1 stands for TypeError
PyLen(v, nfields) ==
  CASE v.kind = "Hex" -> Len(v.digits)
    [] v.kind \in {"NULL", "Neg"} -> 0
    [] v.kind = "Table" -> nfields
    [] v.kind = "List" -> Len(v.items)
    [] OTHER -> -1

\* a == b of Python 2 for the values of the model: T3Number.__eq__ compares
\* _int, _NullNumber.__eq__ is an isinstance test, and the left operand's
\* method is used unless the right operand's class is a subclass of the
\* left operand's class (Hex and _NullNumber are siblings under T3Number).
PyEq(a, b) ==
  CASE a.kind = "None" -> b.kind = "None"
    [] a.kind = "NULL" -> b.kind = "NULL"
    [] a.kind \in {"Hex", "Neg"} ->
         IF IsNumber(b) THEN NumKey(a) = NumKey(b) ELSE FALSE
    [] a.kind = "Table" -> b.kind = "Table" /\ a.tid = b.tid
    [] OTHER -> a = b

\* v in (None, T3Number.NULL)
InNoneNull(v) == PyEq(v, None) \/ PyEq(v, NULL)

\* data[a:b] of Hex.__getitem__ (indices count bytes); an empty slice is NULL
Slice(v, a, b) ==
  IF v.kind # "Hex" THEN NULL
  ELSE LET s == SubSeq(v.digits, a + 1, Min(b, Len(v.digits)))
       IN IF s = <<>> THEN NULL ELSE Hex(s)

SliceFrom(v, a) == Slice(v, a, PyLen(v, 0))
SliceTo(v, b) == Slice(v, 0, b)

\* x // y of T3Number.__floordiv__ and its reflections; [v, err]
Res(v, e) == [v |-> v, err |-> e]

Concat(x, y) ==
  CASE y.kind = "NULL" /\ IsNumber(x) -> Res(x, "")
    [] x.kind = "NULL" /\ IsNumber(y) -> Res(y, "")
    [] x.kind = "NULL" /\ y.kind = "None" -> Res(Neg, "")
    [] x.kind = "None" /\ y.kind = "NULL" -> Res(None, "")
    [] x.kind = "Hex" /\ y.kind = "Hex" -> Res(Hex(x.digits \o y.digits), "")
    [] OTHER -> Res(None, "TypeError")

\* Hex(v) for a number v
HexOfNumber(v) ==
  CASE v.kind = "Hex" -> v
    [] v.kind = "NULL" -> Hex(<<0>>)
    [] OTHER -> Neg

----------------------------------------------------------------------------
(* The heap.  A table: [cls, fields, parent]; parent = 0 is None.  A field: *)
(* [name, pattern, value, binding].  A pattern: [kind, n, m, digits, fn,   *)
(* tid].  A binding: [id, cb, name]; id = 0 is "no binding", name = "" is  *)
(* None.  T3Table._fieldnames counts the fields of each name; it is only   *)
(* ever changed together with _fields, so it is read off the fields.       *)

Pat(k, n, m, ds, fn, t) == [kind |-> k, n |-> n, m |-> m, digits |-> ds, fn |-> fn, tid |-> t]
Bnd(id, cb, name) == [id |-> id, cb |-> cb, name |-> name]
NoBinding == Bnd(0, "", "")
Fld(name, p, v, b) == [name |-> name, pattern |-> p, value |-> v, binding |-> b]
Tab(cls, fs, par) == [cls |-> cls, fields |-> fs, parent |-> par]

T3PatternSection(k) == Pat("Section", k, 0, <<>>, "", 0)
T3PatternValue(ds) == Pat("Value", 0, 0, ds, "", 0)
T3PatternAny == Pat("Any", 0, 0, <<>>, "", 0)
T3PatternFunction(fn) == Pat("Fn", 0, 0, <<>>, fn, 0)
PatTable(t) == Pat("Table", 0, 0, <<>>, "", t)
T3Repeater(t, mn, mx) == Pat("Repeater", mn, mx, <<>>, "", t)

NFields(h, t) == Len(h[t].fields)
FieldIdx(h, t, name) == {i \in 1..NFields(h, t) : h[t].fields[i].name = name}
\* T3Field.__nonzero__
Enabled(f) == f.value.kind # "None"

\* the threshold of the cycle check in T3Field.get_value
StackLimit == 10

\* MAXSIZE, the default maximum of a T3Repeater: 2**64 in the source, here
\* the largest 32-bit integer; no loop of the model runs that long
MAXSIZE == 2147483647

\* the result of a call that reads: the value v, the binding stack st after
\* the call and the exception e it raised ("" and ok when none)
R3(v, st, e) == [v |-> v, st |-> st, err |-> e, ok |-> e = ""]

\* x = v; K(x): the result v of a call is named once and used in what follows
With(v, K(_)) == K(v)

(* Reading and synthesis.  A call that can raise is made as the argument   *)
(* of the operator that continues with its result: F_next(G(...), ...).    *)

RECURSIVE ReduceConcat(_, _, _)

ReduceConcat_next(c, vals, i) ==
  IF c.err = "" THEN ReduceConcat(c.v, vals, i + 1) ELSE c

\* functools.reduce(lambda x, y: x // y, vals) over numbers, vals non-empty
ReduceConcat(acc, vals, i) ==
  IF i <= Len(vals) THEN ReduceConcat_next(Concat(acc, vals[i]), vals, i)
  ELSE Res(acc, "")

\* The reduction of T3Binding._compute_rest: a single value is returned as
\* it is; a table or a list among several values is synthesized inside //,
\* which the model leaves out (err = "Unmodelled").
ReduceRest(vals) ==
  IF Len(vals) = 0 THEN Res(NULL, "")
  ELSE IF Len(vals) = 1 THEN Res(vals[1], "")
  ELSE IF \E i \in 1..Len(vals) : vals[i].kind \in {"Table", "List"}
       THEN Res(None, "Unmodelled")
  ELSE ReduceConcat(vals[1], vals, 2)

\* the result c of a reduction, with the binding stack st
Reduced(c, st) == R3(c.v, st, c.err)

RECURSIVE T3Field_get_value(_, _, _, _)
RECURSIVE T3Table_get_value(_, _, _)
RECURSIVE T3List_get_value(_, _, _)
RECURSIVE ReadFields(_, _, _, _, _)
RECURSIVE SynthFields(_, _, _, _, _)
RECURSIVE SynthItems(_, _, _, _, _)

ReadFields_next(r, h, t, i, acc) ==
  IF r.ok THEN ReadFields(h, r.st, t, i + 1, Append(acc, r.v)) ELSE r

\* [field.get_value() for field in fields i..n of t]: v is the list
ReadFields(h, st, t, i, acc) ==
  IF i <= NFields(h, t) THEN ReadFields_next(T3Field_get_value(h, st, t, i), h, t, i, acc)
  ELSE R3(acc, st, "")

T3Binding_compute_rest_reduce(r) ==
  IF r.ok THEN Reduced(ReduceRest(r.v), r.st) ELSE r

\* T3Binding._compute_rest with self.obj = t (T3Field.get_value sets obj to
\* the table of the field that is read, right before the binding is used)
T3Binding_compute_rest(h, st, t, b) ==
  IF \A i \in 1..NFields(h, t) : h[t].fields[i].binding.id # b.id THEN R3(NULL, st, "")
  ELSE T3Binding_compute_rest_reduce(
         ReadFields(h, st, t,
                    1 + CHOOSE j \in 1..NFields(h, t) :
                          /\ h[t].fields[j].binding.id = b.id
                          /\ \A k \in 1..(j - 1) : h[t].fields[k].binding.id # b.id,
                    <<>>))

\* getattr(t, name)
T3Table_getattr(h, st, t, name) ==
  IF Cardinality(FieldIdx(h, t, name)) = 1
  THEN T3Field_get_value(h, st, t, CHOOSE i \in FieldIdx(h, t, name) : TRUE)
  ELSE IF FieldIdx(h, t, name) = {} THEN R3(None, st, "AttributeError")
  ELSE R3(None, st, "Unmodelled")

\* T3Binding._bound_value
T3Binding_bound_value(h, st, t, b) ==
  IF b.name \notin {"*", ""} THEN T3Table_getattr(h, st, t, b.name)
  ELSE IF b.name = "*" THEN T3Binding_compute_rest(h, st, t, b)
  ELSE R3(Tbl(t), st, "")

\* The callbacks of the repository's tables: len (test_cyclic), data_len
\* (test_apdu) and update_len (_build_tlv).
CbLen(h, st, v) ==
  IF PyLen(v, IF v.kind = "Table" THEN NFields(h, v.tid) ELSE 0) < 0
  THEN R3(None, st, "TypeError")
  ELSE R3(PyInt(PyLen(v, IF v.kind = "Table" THEN NFields(h, v.tid) ELSE 0)), st, "")

data_len(h, st, v) ==
  IF PyLen(v, IF v.kind = "Table" THEN NFields(h, v.tid) ELSE 0) < 0
  THEN R3(None, st, "TypeError")
  ELSE IF PyLen(v, IF v.kind = "Table" THEN NFields(h, v.tid) ELSE 0) <= 255
  THEN R3(HexOfInt(PyLen(v, IF v.kind = "Table" THEN NFields(h, v.tid) ELSE 0)), st, "")
  ELSE R3(None, st, "ValueError")

LenEncoding(n) ==
  IF Len(BytesOfInt(n)) = 1
  THEN IF n >= 128 THEN Hex(<<129>> \o BytesOfInt(n)) ELSE Hex(BytesOfInt(n))
  ELSE Hex(BytesOfInt(128 + Len(BytesOfInt(n))) \o BytesOfInt(n))

\* n = len(v.get_value()), s the result of v.get_value(); except
\* AttributeError: n = len(v)
update_len_encode(s, h, v) ==
  IF s.ok THEN R3(LenEncoding(PyLen(s.v, 0)), s.st, "")
  ELSE IF s.err = "AttributeError"
  THEN R3(LenEncoding(PyLen(v, IF v.kind = "Table" THEN NFields(h, v.tid) ELSE 0)), s.st, "")
  ELSE s

update_len(h, st, v) ==
  IF v.kind = "Table" THEN update_len_encode(T3Table_get_value(h, st, v.tid), h, v)
  ELSE IF v.kind = "List" THEN update_len_encode(T3List_get_value(h, st, v.items), h, v)
  ELSE IF v.kind = "None" THEN R3(None, st, "")
  ELSE IF v.kind = "Int" THEN R3(None, st, "TypeError")
  ELSE R3(LenEncoding(PyLen(v, 0)), st, "")

\* self.callback(v)
Callback(h, st, cb, v) ==
  CASE cb = "update_len" -> update_len(h, st, v)
    [] cb = "data_len" -> data_len(h, st, v)
    [] cb = "len" -> CbLen(h, st, v)
    [] OTHER -> R3(None, st, "Unmodelled")

\* T3Binding.get_value: self.callback(bound), bound the result of
\* self._bound_value()
T3Binding_get_value(h, b, bound) ==
  IF bound.ok THEN Callback(h, bound.st, b.cb, bound.v) ELSE bound

\* T3Table._coerce
Coerce(v) ==
  IF IsNumber(v) THEN v
  ELSE IF v.kind = "Int" THEN HexOfInt(v.int)
  ELSE Neg

\* a value instead of the error
CircularBinding_null(st) == R3(NULL, st, "")

\* _binding_stack = []; raise RuntimeError("Circular binding can't be resolved")
CircularBinding(st) == R3(None, <<>>, "RuntimeError")

\* the end of T3Field.get_value: _binding_stack.pop() and the coercion of
\* the value r.v of the binding
T3Field_get_value_pop(r) ==
  IF r.ok
  THEN R3(IF r.v.kind = "Table" THEN r.v ELSE Coerce(r.v), Front(r.st), "")
  ELSE r

\* T3Field.get_value
T3Field_get_value(h, st, t, i) ==
  CASE ~InNoneNull(h[t].fields[i].value) \/ h[t].fields[i].binding.id = 0 ->
         R3(h[t].fields[i].value, st, "")
    [] /\ InNoneNull(h[t].fields[i].value) /\ h[t].fields[i].binding.id # 0
       /\ Len(st) > StackLimit /\ InSeq(h[t].fields[i].binding.id, st) ->
         CircularBinding(st)
    [] OTHER ->
         T3Field_get_value_pop(
           T3Binding_get_value(
             h, h[t].fields[i].binding,
             T3Binding_bound_value(h, Append(st, h[t].fields[i].binding.id), t,
                                   h[t].fields[i].binding)))

\* v.get_value() of a field value r.v that is a table or a list
SynthValue(h, r) ==
  IF r.v.kind = "Table" THEN T3Table_get_value(h, r.st, r.v.tid)
  ELSE T3List_get_value(h, r.st, r.v.items)

SynthFields_append(s, h, t, i, acc) ==
  IF s.ok THEN SynthFields(h, s.st, t, i + 1, Append(acc, s.v)) ELSE s

SynthFields_next(r, h, t, i, acc) ==
  CASE r.ok /\ r.v.kind \notin {"None", "Table", "List"} ->
         SynthFields(h, r.st, t, i + 1, Append(acc, r.v))
    [] r.ok /\ r.v.kind \in {"Table", "List"} ->
         SynthFields_append(SynthValue(h, r), h, t, i, acc)
    [] r.ok /\ r.v.kind = "None" -> SynthFields(h, r.st, t, i + 1, acc)
    [] ~r.ok -> r

\* the loop of T3Table.get_value: v is the list of the values
SynthFields(h, st, t, i, acc) ==
  CASE i <= NFields(h, t) /\ Enabled(h[t].fields[i]) ->
         SynthFields_next(T3Field_get_value(h, st, t, i), h, t, i, acc)
    [] i <= NFields(h, t) /\ ~Enabled(h[t].fields[i]) -> SynthFields(h, st, t, i + 1, acc)
    [] i > NFields(h, t) -> R3(acc, st, "")

\* the first value instead of the concatenation
T3Table_get_value_first(r) ==
  IF ~r.ok THEN r
  ELSE IF Len(r.v) = 0 THEN R3(NULL, r.st, "")
  ELSE R3(r.v[1], r.st, "")

T3Table_get_value_reduce(r) ==
  IF ~r.ok THEN r
  ELSE IF Len(r.v) = 0 THEN R3(NULL, r.st, "")
  ELSE IF Len(r.v) = 1 THEN R3(r.v[1], r.st, "")
  ELSE Reduced(ReduceConcat(r.v[1], r.v, 2), r.st)

\* T3Table.get_value
T3Table_get_value(h, st, t) ==
  T3Table_get_value_reduce(SynthFields(h, st, t, 1, <<>>))

SynthItems_next(s, h, items, i, acc) ==
  IF s.ok THEN SynthItems(h, s.st, items, i + 1, Append(acc, HexOfNumber(s.v)))
  ELSE s

\* Hex(x) of each element x of a T3List, a table: v is the list
SynthItems(h, st, items, i, acc) ==
  IF i <= Len(items) THEN SynthItems_next(T3Table_get_value(h, st, items[i]), h, items, i, acc)
  ELSE R3(acc, st, "")

T3List_get_value_reduce(r) ==
  IF r.ok THEN Reduced(ReduceConcat(r.v[1], r.v, 2), r.st) ELSE r

\* T3List.get_value: Hex(reduce(lambda x, y: Hex(x) // Hex(y), self))
T3List_get_value(h, st, items) ==
  IF Len(items) = 0 THEN R3(None, st, "TypeError")
  ELSE T3List_get_value_reduce(SynthItems(h, st, items, 1, <<>>))

----------------------------------------------------------------------------
(* Copy, tree copy, cache clearing, assignment, call and add.              *)

HR(h, x, e) == [h |-> h, x |-> x, err |-> e]

RECURSIVE T3Table_copy(_, _)
RECURSIVE CopyFields(_, _, _, _)

\* T3Field.__copy__: a table or prefixed pattern is copied, every other
\* pattern, the value and the binding are shared; x is the new field
T3Field_copy(h, f) ==
  IF f.pattern.kind \in {"Table", "Prefixed"}
  THEN With(T3Table_copy(h, f.pattern.tid), LAMBDA c :
         HR(c.h, [f EXCEPT !.pattern.tid = c.x], ""))
  ELSE HR(h, f, "")

CopyFields(h, fs, i, acc) ==
  IF i > Len(fs) THEN HR(h, acc, "")
  ELSE With(T3Field_copy(h, fs[i]), LAMBDA c :
         CopyFields(c.h, fs, i + 1, Append(acc, c.x)))

\* no copy at all: the table itself
T3Table_copy_same(h, t) == HR(h, t, "")

\* T3Table.__copy__: x is the new table, which has no parent
T3Table_copy(h, t) ==
  With(CopyFields(Append(h, Tab(h[t].cls, <<>>, 0)), h[t].fields, 1, <<>>), LAMBDA c :
    HR([c.h EXCEPT ![Len(h) + 1].fields = c.x], Len(h) + 1, ""))

\* the table itself instead of its root
T3Table_get_root_self(h, t) == t

\* T3Table._get_root
RECURSIVE T3Table_get_root(_, _)
T3Table_get_root(h, t) ==
  IF h[t].parent # 0 THEN T3Table_get_root(h, h[t].parent) ELSE t

RECURSIVE T3Table_treecopy(_, _, _)
RECURSIVE TreecopyFields(_, _, _, _)

\* the loop of T3Table._treecopy over the fields of the copy id
TreecopyFields(h, memo, id, i) ==
  IF i > NFields(h, id) THEN [h |-> h, memo |-> memo]
  ELSE IF h[id].fields[i].value.kind = "Table"
  THEN With(T3Table_treecopy(h, memo, h[id].fields[i].value.tid), LAMBDA c :
         TreecopyFields([c.h EXCEPT ![id].fields[i].value = Tbl(c.x),
                                    ![c.x].parent = id],
                        c.memo, id, i + 1))
  ELSE TreecopyFields(h, memo, id, i + 1)

\* T3Table._treecopy: memo maps a table to its copy
T3Table_treecopy(h, memo, t) ==
  With(T3Table_copy(h, t), LAMBDA c :
    With(TreecopyFields(c.h, (t :> c.x) @@ memo, c.x, 1), LAMBDA r :
      [h |-> r.h, memo |-> r.memo, x |-> c.x]))

RECURSIVE T3Table_clear(_, _)
RECURSIVE ClearFields(_, _, _)

ClearFields(h, t, i) ==
  IF i > NFields(h, t) THEN h
  ELSE LET f == h[t].fields[i]
       IN IF f.binding.id # 0
          THEN IF f.value.kind # "None"
               THEN ClearFields([h EXCEPT ![t].fields[i].value = NULL], t, i + 1)
               ELSE ClearFields(h, t, i + 1)
          ELSE IF f.value.kind = "Table"
          THEN ClearFields(T3Table_clear(h, f.value.tid), t, i + 1)
          ELSE ClearFields(h, t, i + 1)

\* T3Table._clear
T3Table_clear(h, t) == ClearFields(h, t, 1)

\* T3Table._set_value_and_binding for a value v (None, a table, a number)
SetValue(h, t, i, v) ==
  [h EXCEPT ![t].fields[i].value =
     IF v.kind \in {"None", "Table"} THEN v ELSE Coerce(v)]

\* the closing loop of T3Table._update
ResetOthers(h, t, name) ==
  [h EXCEPT ![t].fields =
     [i \in 1..NFields(h, t) |->
        IF h[t].fields[i].name # name /\ h[t].fields[i].binding.id # 0
        THEN [h[t].fields[i] EXCEPT !.value = NULL]
        ELSE h[t].fields[i]]]

\* T3Table._update (T3Table.__setattr__) for a value v that is None, a
\* number, a table or a T3List
T3Table_update(h, t, name, v) ==
  With(T3Table_clear(h, T3Table_get_root(h, t)), LAMBDA h1 :
    LET I == FieldIdx(h1, t, name)
    IN IF I = {} THEN HR(h1, 0, "AttributeError")
       ELSE IF Cardinality(I) = 1
       THEN With(CHOOSE j \in I : TRUE, LAMBDA i :
              With(IF v.kind = "List" THEN h1
                   ELSE IF v.kind = "Table"
                   THEN [SetValue(h1, t, i, v) EXCEPT ![v.tid].parent = t]
                   ELSE SetValue(h1, t, i, v), LAMBDA h2 :
                HR(ResetOthers(h2, t, name), 0, "")))
       ELSE HR(ResetOthers(h1, t, name), 0, ""))

\* T3Table.__call__ with no field (name = "") or one field to assign: x is
\* the root of the new tree
T3Table_call(h, t, name, v) ==
  With(T3Table_treecopy(h, << >>, T3Table_get_root(h, t)), LAMBDA c :
    IF t \notin DOMAIN c.memo THEN HR(c.h, 0, "KeyError")
    ELSE IF name = "" THEN HR(c.h, c.x, "")
    ELSE IF FieldIdx(c.h, c.memo[t], name) = {} THEN HR(c.h, 0, "ValueError")
    ELSE With(T3Table_update(c.h, c.memo[t], name, v), LAMBDA u :
           HR(u.h, c.x, u.err)))

\* T3Table.add(pattern, name = v) for a value v, or (b.id # 0) a binding b
T3Table_add(h, t, p, name, v, b) ==
  With([h EXCEPT ![t].fields =
          Append(@, Fld(name, p,
                        IF b.id # 0 THEN NULL
                        ELSE IF v.kind \in {"None", "Table"} THEN v ELSE Coerce(v),
                        b))], LAMBDA h1 :
    IF b.id = 0 /\ v.kind = "Table" THEN [h1 EXCEPT ![v.tid].parent = t] ELSE h1)

----------------------------------------------------------------------------
(* Matching.  A match result: the T3Match (value, rest, fail), the heap    *)
(* and the binding stack after the call, and the exception raised, if any. *)

M(h, st, v, rest, fail, e) ==
  [h |-> h, st |-> st, value |-> v, rest |-> rest, fail |-> fail, err |-> e]

\* T3PatternSection.match
T3PatternSection_match(h, st, count, data) ==
  IF data.kind = "None" THEN M(h, st, None, data, TRUE, "TypeError")
  ELSE With(SliceTo(data, count), LAMBDA value :
         IF PyLen(value, 0) = count
         THEN M(h, st, value, SliceFrom(data, count), FALSE, "")
         ELSE M(h, st, None, data, TRUE, ""))

\* T3PatternValue.match: value = data.__class__(self.value), which is NULL
\* when data is NULL
T3PatternValue_match(h, st, ds, data) ==
  IF data.kind = "None" THEN M(h, st, None, data, TRUE, "TypeError")
  ELSE With(IF data.kind = "NULL" THEN NULL ELSE Hex(ds), LAMBDA value :
         With(PyLen(value, 0), LAMBDA k :
           IF ~PyEq(SliceTo(data, k), value)
           THEN M(h, st, None, data, TRUE, "")
           ELSE M(h, st, SliceTo(data, k), SliceFrom(data, k), FALSE, "")))

\* T3PatternAny.match
T3PatternAny_match(h, st, data) == M(h, st, data, None, FALSE, "")

\* data[0] of a callback: the byte, -1 for IndexError, -2 for TypeError
Byte0(data) ==
  CASE data.kind = "Hex" -> data.digits[1]
    [] data.kind = "NULL" -> 0
    [] data.kind = "Neg" -> -1
    [] OTHER -> -2

ByteErr(b) == IF b = -1 THEN "IndexError" ELSE "TypeError"

\* The pattern callbacks of the repository's tables, followed by
\* pattern_factory: tag_size, len_size, value_size (_build_tlv) and
\* data_size (test_apdu).  v is the pattern.
tag_size(h, st, c, data) ==
  With(Byte0(data), LAMBDA b :
    IF b < 0 THEN R3(None, st, ByteErr(b))
    ELSE R3(T3PatternSection(IF b % 32 = 31 THEN 2 ELSE 1), st, ""))

len_size(h, st, c, data) ==
  With(Byte0(data), LAMBDA b :
    IF b < 0 THEN R3(None, st, ByteErr(b))
    ELSE R3(T3PatternSection(IF b >= 128 THEN 1 + (b % 16) ELSE 1), st, ""))

\* the second half of value_size: tlv.Len[0], r2, then tlv.Len again, r3
value_size_len(r2, r3) ==
  IF r3.err # "" THEN r3
  ELSE IF ~IsNumber(r3.v) \/ r3.v.kind = "Neg" THEN R3(None, r3.st, "Unmodelled")
  ELSE IF Byte0(r2.v) >= 128
  THEN R3(T3PatternSection(NumInt(SliceFrom(r3.v, 1))), r3.st, "")
  ELSE R3(T3PatternSection(NumInt(r3.v)), r3.st, "")

value_size(h, st, c, data) ==
  With(T3Table_getattr(h, st, c, "Value"), LAMBDA r1 :
    IF r1.err # "" THEN r1
    ELSE IF r1.v.kind = "Table" THEN R3(PatTable(r1.v.tid), r1.st, "")
    ELSE IF r1.v.kind = "List" THEN R3(None, r1.st, "Unmodelled")
    ELSE With(T3Table_getattr(h, r1.st, c, "Len"), LAMBDA r2 :
           IF r2.err # "" THEN r2
           ELSE IF ~IsNumber(r2.v) THEN R3(None, r2.st, "Unmodelled")
           ELSE IF r2.v.kind = "Neg" THEN R3(None, r2.st, "IndexError")
           ELSE value_size_len(r2, T3Table_getattr(h, r2.st, c, "Len"))))

data_size(h, st, c, data) ==
  With(T3Table_getattr(h, st, c, "Lc"), LAMBDA r :
    IF r.err # "" THEN r
    ELSE IF ~IsNumber(r.v) THEN R3(None, r.st, "AttributeError")
    ELSE IF r.v.kind = "Neg" THEN R3(None, r.st, "Unmodelled")
    ELSE R3(T3PatternSection(NumInt(r.v)), r.st, ""))

\* a string of hex digits and the string "*", as arguments of pattern_factory
Str(ds) == Val("Str", ds, 0, <<>>, 0)
Star == Val("Star", <<>>, 0, <<>>, 0)

\* a number taken for a literal
pattern_factory_literal(arg) ==
  IF "fn" \in DOMAIN arg THEN arg
  ELSE CASE arg.kind = "Table" -> PatTable(arg.tid)
         [] arg.kind = "Star" -> T3PatternAny
         [] arg.kind = "Int" -> T3PatternSection(arg.int)
         [] arg.kind \in {"Hex", "Str"} -> T3PatternValue(arg.digits)
         [] OTHER -> Pat("Unmodelled", 0, 0, <<>>, "", 0)

\* pattern_factory(arg) for a pattern object, a table, "*", an integer, a
\* number (which has __int__, and T3PatternSection(Hex(n)) slices and
\* compares as T3PatternSection(n)) and a string of digits
pattern_factory(arg) ==
  IF "fn" \in DOMAIN arg THEN arg
  ELSE CASE arg.kind = "Table" -> PatTable(arg.tid)
         [] arg.kind = "Star" -> T3PatternAny
         [] arg.kind = "Int" -> T3PatternSection(arg.int)
         [] arg.kind = "Hex" -> T3PatternSection(NumInt(arg))
         [] arg.kind = "Str" -> T3PatternValue(arg.digits)
         [] OTHER -> Pat("Unmodelled", 0, 0, <<>>, "", 0)

\* callbacks that return a constant: lambda table, data: 1, Hex("01"),
\* "01", "*" and T3PatternSection(2)
ArgNames == {"ret_int", "ret_number", "ret_str", "ret_star", "ret_pattern"}
ArgNamed(n) ==
  CASE n = "ret_int" -> PyInt(1)
    [] n = "ret_number" -> Hex(<<1>>)
    [] n = "ret_str" -> Str(<<1>>)
    [] n = "ret_star" -> Star
    [] n = "ret_pattern" -> T3PatternSection(2)

\* the order in which the fields of the arguments are added
ArgOrder(n) ==
  CASE n = "ret_int" -> 1 [] n = "ret_number" -> 2 [] n = "ret_str" -> 3
    [] n = "ret_star" -> 4 [] n = "ret_pattern" -> 5

GetPattern(h, st, c, fn, data) ==
  CASE fn = "tag_size" -> tag_size(h, st, c, data)
    [] fn \in ArgNames -> R3(pattern_factory(ArgNamed(fn)), st, "")
    [] fn = "len_size" -> len_size(h, st, c, data)
    [] fn = "value_size" -> value_size(h, st, c, data)
    [] fn = "data_size" -> data_size(h, st, c, data)
    [] OTHER -> R3(None, st, "Unmodelled")

\* T3Table._auto_parent
T3Table_auto_parent(h, c) ==
  [t \in 1..Len(h) |->
     IF \E i \in 1..NFields(h, c) : h[c].fields[i].value = Tbl(t)
     THEN [h[t] EXCEPT !.parent = c] ELSE h[t]]

RECURSIVE T3Table_match(_, _, _, _)
RECURSIVE T3PatternTable_match(_, _, _, _, _)
RECURSIVE AnyLoop(_, _, _, _, _, _)
RECURSIVE PatMatch(_, _, _, _, _)
RECURSIVE RepeaterLoop(_, _, _, _, _, _)

\* P.match(data) for the pattern P of a field of table c; a function
\* pattern is called with the table (T3PatternFunction.match); a prefixed
\* pattern (T3PatternPrefixed.match) matches its table when the prefix matches
PatMatch(h, st, c, P, data) ==
  CASE P.kind = "Section" -> T3PatternSection_match(h, st, P.n, data)
    [] P.kind = "Value" -> T3PatternValue_match(h, st, P.digits, data)
    [] P.kind = "Any" -> T3PatternAny_match(h, st, data)
    [] P.kind = "Fn" ->
         With(GetPattern(h, st, c, P.fn, data), LAMBDA g :
           IF g.err # "" THEN M(h, g.st, None, data, TRUE, g.err)
           ELSE PatMatch(h, g.st, c, g.v, data))
    [] P.kind = "Table" -> T3Table_match(h, st, P.tid, data)
    [] P.kind = "Prefixed" ->
         With(T3PatternValue_match(h, st, P.digits, data), LAMBDA m :
           IF m.err # "" \/ m.fail THEN m ELSE T3Table_match(h, st, P.tid, data))
    [] P.kind = "Repeater" ->
         RepeaterLoop(h, st, P, IF IsNumber(data) THEN data ELSE Neg, 0, <<>>)
    [] OTHER -> M(h, st, None, data, TRUE, "Unmodelled")

\* len(v) of a match value
MLen(h, v) == PyLen(v, IF v.kind = "Table" THEN NFields(h, v.tid) ELSE 0)

\* the scan from the empty prefix upwards
RECURSIVE AnyLoop_from(_, _, _, _, _, _)
AnyLoop_from(h, st, c, idxs, data, k) ==
  IF k > PyLen(data, 0) - 1 THEN M(h, st, None, data, TRUE, "")
  ELSE With(T3PatternTable_match(h, st, c, Tail(idxs), SliceFrom(data, k)), LAMBDA q :
         IF q.err # "" THEN q
         ELSE IF ~q.fail
         THEN [q EXCEPT !.h = [q.h EXCEPT ![c].fields[Head(idxs)].value = SliceTo(data, k)],
                        !.value = data]
         ELSE AnyLoop_from(q.h, q.st, c, idxs, data, k + 1))

AnyLoop_up(h, st, c, idxs, data, k) == AnyLoop_from(h, st, c, idxs, data, 0)

\* The loop of T3PatternTable.match for an Any pattern followed by fields:
\* k runs from len(data) - 1 down to 0
AnyLoop(h, st, c, idxs, data, k) ==
  IF k < 0 THEN M(h, st, None, data, TRUE, "")
  ELSE With(T3PatternTable_match(h, st, c, Tail(idxs), SliceFrom(data, k)), LAMBDA q :
         IF q.err # "" THEN q
         ELSE IF ~q.fail
         THEN [q EXCEPT !.h = [q.h EXCEPT ![c].fields[Head(idxs)].value = SliceTo(data, k)],
                        !.value = data]
         ELSE AnyLoop(q.h, q.st, c, idxs, data, k - 1))

\* T3PatternTable(fields).match(data): idxs are the fields, of table c
T3PatternTable_match(h, st, c, idxs, data) ==
  IF idxs = <<>> THEN M(h, st, None, data, TRUE, "IndexError")
  ELSE
  LET i == Head(idxs)
      P == h[c].fields[i].pattern
  IN IF Len(idxs) > 1 /\ P.kind = "Any"
     THEN IF data.kind = "None" THEN M(h, st, None, data, TRUE, "TypeError")
          ELSE AnyLoop(h, st, c, idxs, data, PyLen(data, 0) - 1)
     ELSE With(PatMatch(h, st, c, P, data), LAMBDA m :
            IF m.err # "" \/ m.fail THEN m
            ELSE IF Len(idxs) = 1
            THEN [m EXCEPT !.h = [m.h EXCEPT ![c].fields[i].value = m.value]]
            ELSE With(T3PatternTable_match([m.h EXCEPT ![c].fields[i].value = m.value],
                                           m.st, c, Tail(idxs), m.rest), LAMBDA q :
                   IF q.err # "" THEN q
                   ELSE IF q.fail /\ q.value.kind = "None"
                   THEN [q EXCEPT !.value = m.value]
                   ELSE IF MLen(q.h, m.value) < 0 \/ MLen(q.h, q.value) < 0
                   THEN [q EXCEPT !.err = "TypeError"]
                   ELSE [q EXCEPT !.value =
                           SliceTo(data, MLen(q.h, m.value) + MLen(q.h, q.value))]))

\* the enabled fields of a table, in order
RECURSIVE EnabledIdxs(_, _)
EnabledIdxs(fs, i) ==
  IF i > Len(fs) THEN <<>>
  ELSE IF Enabled(fs[i]) THEN <<i>> \o EnabledIdxs(fs, i + 1)
  ELSE EnabledIdxs(fs, i + 1)

\* T3Table.match
T3Table_match(h, st, t, data0) ==
  With(IF IsNumber(data0) THEN data0 ELSE Neg, LAMBDA data :
    IF h[t].cls # "T3Table" THEN M(h, st, None, data, TRUE, "Unmodelled")
    ELSE With(T3Table_copy(h, t), LAMBDA c :
           With(T3PatternTable_match(c.h, st, c.x, EnabledIdxs(c.h[c.x].fields, 1), data),
                LAMBDA m :
             IF m.err # "" \/ m.fail THEN m
             ELSE IF PyEq(m.rest, data) THEN [m EXCEPT !.fail = TRUE]
             ELSE [m EXCEPT !.value = Tbl(c.x), !.h = T3Table_auto_parent(m.h, c.x)])))

\* the loop without the test of the minimum
RECURSIVE RepeaterLoop_nomin(_, _, _, _, _, _)
RepeaterLoop_nomin(h, st, P, R, i, lst) ==
  IF i >= P.m THEN M(h, st, Lst(lst), R, FALSE, "")
  ELSE With(T3Table_match(h, st, P.tid, R), LAMBDA m :
         IF m.err # "" THEN m
         ELSE IF m.fail THEN M(m.h, m.st, Lst(lst), R, FALSE, "")
         ELSE RepeaterLoop_nomin(m.h, m.st, P, m.rest, i + 1, Append(lst, m.value.tid)))

\* The loop of T3Repeater.match: i successes so far, lst the matched copies
RepeaterLoop(h, st, P, R, i, lst) ==
  IF i >= P.m THEN M(h, st, Lst(lst), R, FALSE, "")
  ELSE With(T3Table_match(h, st, P.tid, R), LAMBDA m :
         IF m.err # "" THEN m
         ELSE IF m.fail
         THEN IF i < P.n THEN m ELSE M(m.h, m.st, Lst(lst), R, FALSE, "")
         ELSE RepeaterLoop(m.h, m.st, P, m.rest, i + 1, Append(lst, m.value.tid)))

----------------------------------------------------------------------------
(* Garbage: the tables an operation allocated and dropped (the copy of a   *)
(* failed match, the copies of failed attempts) are removed from the heap, *)
(* and the tables that are kept are renumbered in allocation order.        *)

TableRefs(tab) ==
  UNION {
    (IF tab.fields[i].value.kind = "Table" THEN {tab.fields[i].value.tid} ELSE {})
    \cup (IF tab.fields[i].value.kind = "List"
          THEN {tab.fields[i].value.items[j] : j \in 1..Len(tab.fields[i].value.items)}
          ELSE {})
    \cup (IF tab.fields[i].pattern.tid # 0 THEN {tab.fields[i].pattern.tid} ELSE {})
    : i \in 1..Len(tab.fields)}

RECURSIVE Closure(_, _)
Closure(h, S) ==
  With(S \cup UNION {TableRefs(h[t]) : t \in S}, LAMBDA N :
    IF N = S THEN S ELSE Closure(h, N))

RenVal(v, ren(_)) ==
  CASE v.kind = "Table" -> Tbl(ren(v.tid))
    [] v.kind = "List" -> Lst([j \in 1..Len(v.items) |-> ren(v.items[j])])
    [] OTHER -> v

Compact(h, keep) ==
  LET rank(t) == Cardinality({k \in keep : k <= t})
      ren(t) == IF t \in keep THEN rank(t) ELSE 0
      old(j) == CHOOSE t \in keep : rank(t) = j
      renField(f) == [f EXCEPT !.value = RenVal(f.value, ren),
                               !.pattern.tid = ren(f.pattern.tid)]
      renTable(tab) == Tab(tab.cls,
                           [i \in 1..Len(tab.fields) |-> renField(tab.fields[i])],
                           ren(tab.parent))
  IN [j \in 1..Cardinality(keep) |-> renTable(h[old(j)])]

\* the heap h after an operation on a heap of n0 tables that returned v
Collect(h, n0, v) ==
  With(Closure(h, (1..n0) \cup (IF v.kind = "Table" THEN {v.tid} ELSE {})
                          \cup (IF v.kind = "List"
                                THEN {v.items[j] : j \in 1..Len(v.items)} ELSE {})),
       LAMBDA keep :
    [h |-> Compact(h, keep),
     v |-> RenVal(v, LAMBDA t : IF t \in keep
                                THEN Cardinality({k \in keep : k <= t}) ELSE 0)])

----------------------------------------------------------------------------
(* The tables of the repository's tests, built with add.                   *)

EmptyHeap == <<Tab("T3Table", <<>>, 0)>>
Byte00 == Hex(<<0>>)

\* test_apdu: Apdu (one of the four one-byte header fields is kept)
ApduHeap ==
  LET h1 == T3Table_add(EmptyHeap, 1, T3PatternSection(1), "P1", Byte00, NoBinding)
      h2 == T3Table_add(h1, 1, T3PatternSection(1), "Lc", NULL, Bnd(1, "data_len", "Data"))
  IN T3Table_add(h2, 1, T3PatternAny, "Data", Byte00, NoBinding)

\* test_apdu: the second Apdu, whose Data is sized by data_size
Apdu2Heap ==
  LET h1 == T3Table_add(EmptyHeap, 1, T3PatternSection(1), "P1", Byte00, NoBinding)
      h2 == T3Table_add(h1, 1, T3PatternSection(1), "Lc", NULL, Bnd(2, "data_len", "Data"))
  IN T3Table_add(h2, 1, T3PatternFunction("data_size"), "Data", Byte00, NoBinding)

\* _build_tlv
TlvHeap ==
  LET h1 == T3Table_add(EmptyHeap, 1, T3PatternFunction("tag_size"), "Tag", Hex(<<165>>), NoBinding)
      h2 == T3Table_add(h1, 1, T3PatternFunction("len_size"), "Len", NULL, Bnd(3, "update_len", "*"))
  IN T3Table_add(h2, 1, T3PatternFunction("value_size"), "Value", Hex(<<137, 137>>), NoBinding)

\* test_tlv: Tlv3 = Tlv2(Tag = "A6"); Tlv2.Value = Tlv3
NestedTlvHeap ==
  With(T3Table_call(TlvHeap, 1, "Tag", Hex(<<166>>)), LAMBDA c :
    T3Table_update(c.h, 1, "Value", Tbl(c.x)).h)

\* test_tlv: RApdu, with Le disabled and (RApdu(Le = "00")) enabled
RApduHeap ==
  LET h1 == T3Table_add(EmptyHeap, 1, T3PatternAny, "Data", Byte00, NoBinding)
      h2 == T3Table_add(h1, 1, T3PatternSection(1), "Le", None, NoBinding)
  IN T3Table_add(h2, 1, T3PatternSection(2), "SW", Hex(<<0, 0>>), NoBinding)

RApduLeHeap == T3Table_update(RApduHeap, 1, "Le", Byte00).h

\* test_list: a repeated table, here as the pattern of a field of a table
\* whose first field is bound to the list
ListHeap ==
  LET h0 == <<Tab("T3Table", <<>>, 0), Tab("T3Table", <<>>, 0)>>
      e1 == T3Table_add(h0, 2, T3PatternSection(1), "Len", NULL, Bnd(4, "data_len", "Value"))
      e2 == T3Table_add(e1, 2, T3PatternFunction("value_size"), "Value", Byte00, NoBinding)
      h1 == T3Table_add(e2, 1, T3PatternSection(1), "Lc", NULL, Bnd(5, "data_len", "Data"))
  IN T3Table_add(h1, 1, T3Repeater(2, 1, MAXSIZE), "Data", Byte00, NoBinding)

\* an Any field followed by a length and a value of that length
AnyLvHeap ==
  LET h1 == T3Table_add(EmptyHeap, 1, T3PatternAny, "Data", Byte00, NoBinding)
      h2 == T3Table_add(h1, 1, T3PatternSection(1), "Len", NULL, Bnd(6, "data_len", "Value"))
  IN T3Table_add(h2, 1, T3PatternFunction("value_size"), "Value", Byte00, NoBinding)

Prototypes ==
  {ApduHeap, Apdu2Heap, TlvHeap, NestedTlvHeap, RApduHeap, RApduLeHeap, ListHeap}

----------------------------------------------------------------------------
(* The state machine.  heap: the tables; stack: _binding_stack; last: the  *)
(* last operation, its arguments and its result; ops: operations so far.   *)

Last(op, t, name, arg, res, rest, fail, err, n0) ==
  [op |-> op, t |-> t, name |-> name, arg |-> arg, res |-> res, rest |-> rest,
   fail |-> fail, err |-> err, n0 |-> n0]

RECURSIVE SeqsUpTo(_, _)
SeqsUpTo(S, n) ==
  IF n = 0 THEN {<<>>}
  ELSE LET P == SeqsUpTo(S, n - 1)
       IN P \cup {Append(s, x) : s \in {q \in P : Len(q) = n - 1}, x \in S}

\* the data of a match: one to MaxData bytes
DataSet == {Hex(s) : s \in SeqsUpTo(0..MaxByte, MaxData) \ {<<>>}}
AnyDataSet == {Hex(s) : s \in SeqsUpTo(0..MaxAnyByte, MaxData) \ {<<>>}}

\* the names an operation is given: the fields of the table and an unknown one
Names(h, t) == {h[t].fields[i].name : i \in 1..NFields(h, t)} \cup {"Q"}

\* The tree of a table: the tables reached through field values (nested
\* tables and the elements of List values).
ValueRefs(tab) ==
  UNION {
    (IF tab.fields[i].value.kind = "Table" THEN {tab.fields[i].value.tid} ELSE {})
    \cup (IF tab.fields[i].value.kind = "List"
          THEN {tab.fields[i].value.items[j] : j \in 1..Len(tab.fields[i].value.items)}
          ELSE {})
    : i \in 1..Len(tab.fields)}

RECURSIVE TreeOf(_, _)
TreeOf(h, S) ==
  LET N == S \cup UNION {ValueRefs(h[t]) : t \in S}
  IN IF N = S THEN S ELSE TreeOf(h, N)

\* the tables that can be assigned as a value: roots held by nobody, whose
\* tree does not hold t
FreeRoots(h, t) ==
  {u \in DOMAIN h : /\ h[u].parent = 0
                    /\ u # T3Table_get_root(h, t)
                    /\ \A w \in DOMAIN h : u \notin TableRefs(h[w])
                    /\ t \notin TreeOf(h, {u})}

\* the values of an assignment
AssignValues(h, t) ==
  {None, Byte00, Hex(<<1, 1>>)} \cup {Tbl(u) : u \in FreeRoots(h, t)}

Init ==
  /\ heap \in Prototypes
  /\ stack = <<>>
  /\ last = Last("init", 0, "", None, None, None, FALSE, "", 0)
  /\ ops = 0

\* m = T.match(data)
Match(t, d) ==
  /\ ops < MaxOps
  /\ With(T3Table_match(heap, stack, t, d), LAMBDA m :
       /\ stack' = m.st
       /\ With(Collect(m.h, Len(heap), IF m.err = "" /\ ~m.fail THEN m.value ELSE None),
               LAMBDA g :
            /\ heap' = g.h
            /\ last' = Last("match", t, "", d,
                            IF m.err = "" /\ ~m.fail THEN g.v ELSE m.value,
                            m.rest, m.fail, m.err, Len(heap))))
  /\ ops' = ops + 1

\* T.name = v, whatever the number of operations so far
SetAttrOp(t, name, v) ==
  /\ With(T3Table_update(heap, t, name, v), LAMBDA u :
       /\ heap' = u.h
       /\ last' = Last("set", t, name, v, None, None, FALSE, u.err, Len(heap)))
  /\ ops' = ops + 1
  /\ UNCHANGED stack

\* T.name = v
SetAttr(t, name, v) == ops < MaxOps /\ SetAttrOp(t, name, v)

\* R = T() and R = T(name = v)
Call(t, name, v) ==
  /\ ops < MaxOps
  /\ With(T3Table_call(heap, t, name, v), LAMBDA c :
       With(Collect(c.h, Len(heap), IF c.err = "" THEN Tbl(c.x) ELSE None), LAMBDA g :
         /\ heap' = g.h
         /\ last' = Last("call", t, name, v, g.v, None, FALSE, c.err, Len(heap))))
  /\ ops' = ops + 1
  /\ UNCHANGED stack

\* T.name, whatever the number of operations so far
ReadOp(t, name) ==
  /\ With(T3Table_getattr(heap, stack, t, name), LAMBDA r :
       /\ stack' = r.st
       /\ last' = Last("read", t, name, None, r.v, None, FALSE, r.err, Len(heap)))
  /\ ops' = ops + 1
  /\ UNCHANGED heap

\* T.name
Read(t, name) == ops < MaxOps /\ ReadOp(t, name)

\* Hex(T)
Synth(t) ==
  /\ ops < MaxOps
  /\ With(T3Table_get_value(heap, stack, t), LAMBDA r :
       /\ stack' = r.st
       /\ last' = Last("synth", t, "", None, r.v, None, FALSE, r.err, Len(heap)))
  /\ ops' = ops + 1
  /\ UNCHANGED heap

\* T.add(1, X = "00")
Add(t) ==
  /\ ops < MaxOps
  /\ NFields(heap, t) < MaxFields
  /\ heap' = T3Table_add(heap, t, T3PatternSection(1), "X", Byte00, NoBinding)
  /\ last' = Last("add", t, "X", Byte00, None, None, FALSE, "", Len(heap))
  /\ ops' = ops + 1
  /\ UNCHANGED stack

Next ==
  \/ \E t \in DOMAIN heap, d \in DataSet : Match(t, d)
  \/ \E t \in DOMAIN heap : \E name \in Names(heap, t), v \in AssignValues(heap, t) :
       SetAttr(t, name, v)
  \/ \E t \in DOMAIN heap : Call(t, "", None)
  \/ \E t \in DOMAIN heap : \E name \in Names(heap, t), v \in AssignValues(heap, t) :
       Call(t, name, v)
  \/ \E t \in DOMAIN heap : \E name \in Names(heap, t) : Read(t, name)
  \/ \E t \in DOMAIN heap : Synth(t)
  \/ \E t \in DOMAIN heap : Add(t)

Spec == Init /\ [][Next]_vars

----------------------------------------------------------------------------
\* the tables held by no table whose tree contains t
Tops(h, t) ==
  {w \in DOMAIN h : /\ t \in TreeOf(h, {w})
                    /\ \A x \in DOMAIN h : w \notin ValueRefs(h[x])}

\* the field of table t named name, when there is exactly one (else 0)
TheField(h, t, name) ==
  IF Cardinality(FieldIdx(h, t, name)) = 1
  THEN CHOOSE i \in FieldIdx(h, t, name) : TRUE ELSE 0

MatchOk == last.op = "match" /\ last.err = "" /\ ~last.fail

----------------------------------------------------------------------------
(* C1.  Round trip: whenever T.match(d) succeeds with no remainder, the    *)
(* synthesis of the matched copy equals d digit for digit.                 *)

C1_RoundTrip ==
  (MatchOk /\ last.rest.kind \in {"NULL", "None"})
    => LET s == T3Table_get_value(heap, stack, last.res.tid)
       IN s.err = "" /\ s.v.kind = "Hex" /\ s.v.digits = last.arg.digits

----------------------------------------------------------------------------
(* C2.  After a successful assignment to a field of a table, every other   *)
(* field with a binding, in every table of the tree that holds the table   *)
(* (nested tables and elements of List values included), has the stored    *)
(* value NULL.  Disabled fields (stored None) and the assignment of a      *)
(* table (whose own fields join the tree after the clearing) are left out  *)
(* of the statement.                                                       *)

C2_ClearOnAssign ==
  (last.op = "set" /\ last.err = "" /\ last.arg.kind # "Table")
    => \A w \in Tops(heap, last.t) : \A u \in TreeOf(heap, {w}) :
         \A i \in 1..NFields(heap, u) :
           LET f == heap[u].fields[i]
           IN (f.binding.id # 0 /\ f.value.kind # "None"
               /\ ~(u = last.t /\ f.name = last.name))
                => f.value = NULL

----------------------------------------------------------------------------
(* C3.  Length binding.  (a) After T.Value = v, for a number v, every      *)
(* field of T bound to Value by name, or by "*" with Value the one field   *)
(* after it, reads as the callback applied to v.  (b) In a table produced  *)
(* by a match a bound field reads as its matched bytes.                    *)

BoundTo(h, t, i, name) ==
  LET b == h[t].fields[i].binding
  IN /\ b.id # 0
     /\ \/ b.name = name
        \/ b.name = "*" /\ i + 1 = NFields(h, t) /\ h[t].fields[i + 1].name = name

C3_AfterAssign ==
  (last.op = "set" /\ last.err = "" /\ last.arg.kind = "Hex"
   /\ TheField(heap, last.t, last.name) # 0)
    => \A i \in 1..NFields(heap, last.t) :
         BoundTo(heap, last.t, i, last.name)
           => LET r == T3Field_get_value(heap, stack, last.t, i)
                  c == Callback(heap, stack, heap[last.t].fields[i].binding.cb, last.arg)
              IN r.err = "" /\ c.err = "" /\ r.v = Coerce(c.v)

C3_AfterMatch ==
  MatchOk
    => \A i \in 1..NFields(heap, last.res.tid) :
         LET f == heap[last.res.tid].fields[i]
             r == T3Field_get_value(heap, stack, last.res.tid, i)
         IN (f.binding.id # 0 /\ f.value.kind = "Hex")
              => (r.err = "" /\ r.v = f.value)

\* C3: both parts, after an assignment and after a match
C3_LengthBinding == C3_AfterAssign /\ C3_AfterMatch

----------------------------------------------------------------------------
(* C4.  A read of a field whose stored value is a number other than NULL   *)
(* returns the stored value.                                               *)

C4_ReadStored ==
  (last.op = "read" /\ TheField(heap, last.t, last.name) # 0)
    => LET f == heap[last.t].fields[TheField(heap, last.t, last.name)]
       IN f.value.kind = "Hex" => (last.err = "" /\ last.res = f.value)

----------------------------------------------------------------------------
(* C7.  Matching never changes a table that existed before the call        *)
(* (pattern, stored value and binding of every field, and the parent       *)
(* link), whether the match succeeds or fails, and no table of the tree    *)
(* that a successful match returns existed before the call.                *)

C7_MatchStep ==
  last'.op = "match"
    => /\ \A t \in DOMAIN heap : t \in DOMAIN heap' /\ heap'[t] = heap[t]
       /\ (last'.err = "" /\ ~last'.fail)
            => TreeOf(heap', {last'.res.tid}) \cap DOMAIN heap = {}

\* C7: every step that is a match leaves the tables that existed unchanged
C7_PrototypeUnchanged == [][C7_MatchStep]_vars

\* a successful match whose copy holds a value that the prototype does not
C7_Witness ==
  /\ MatchOk
  /\ \E i \in 1..NFields(heap, last.t) :
       heap[last.res.tid].fields[i].value # heap[last.t].fields[i].value

----------------------------------------------------------------------------
(* C9.  A call on a table t that succeeds returns a new table without a    *)
(* parent, the root of a tree of new tables that has the shape of the tree *)
(* of the root of t: every field that has no binding keeps its value or,   *)
(* for a nested table, holds the copy of it; the copy of t holds the       *)
(* assigned value (the name given names one field); no table of the source *)
(* tree changes; and every parent link inside the new tree points to a     *)
(* table of the new tree.  The stored value of a field with a binding is a *)
(* cache that the assignment clears, so nothing is said about it.          *)

RECURSIVE SameTree(_, _, _, _, _, _, _)
\* table b of heap h2 is the copy of table a of heap h1, where the copy of
\* table t was assigned name = v
SameTree(h1, a, h2, b, t, name, v) ==
  /\ NFields(h1, a) = NFields(h2, b)
  /\ \A i \in 1..NFields(h1, a) :
       LET f == h1[a].fields[i]
           g == h2[b].fields[i]
       IN /\ g.name = f.name
          /\ g.binding = f.binding
          /\ g.pattern.kind = f.pattern.kind
          /\ IF a = t /\ f.name = name
             THEN g.value = (IF v.kind \in {"None", "Table"} THEN v ELSE Coerce(v))
             ELSE IF f.binding.id # 0 THEN TRUE
             ELSE IF f.value.kind = "Table"
             THEN /\ g.value.kind = "Table"
                  /\ g.value.tid \notin DOMAIN h1
                  /\ h2[g.value.tid].parent = b
                  /\ SameTree(h1, f.value.tid, h2, g.value.tid, t, name, v)
             ELSE g.value = f.value

\* the table without a parent at the top of the parent links of t
RECURSIVE TopParent(_, _)
TopParent(h, t) == IF h[t].parent = 0 THEN t ELSE TopParent(h, h[t].parent)

C9_CallStep ==
  (last'.op = "call" /\ last'.err = ""
   /\ Cardinality(FieldIdx(heap, last'.t, last'.name)) <= 1)
    => LET R == last'.res.tid
           root == TopParent(heap, last'.t)
       IN /\ R \notin DOMAIN heap
          /\ heap'[R].parent = 0
          /\ SameTree(heap, root, heap', R, last'.t, last'.name, last'.arg)
          /\ \A u \in TreeOf(heap, {root}) : heap'[u] = heap[u]
          /\ \A u \in TreeOf(heap', {R}) :
               heap'[u].parent # 0 => heap'[u].parent \in TreeOf(heap', {R})

----------------------------------------------------------------------------
(* Calls and assignments on trees produced by a match.                     *)

\* the heap after T.match(d), for the table T = 1 of heap h0
MatchedHeap(h0, d) ==
  With(T3Table_match(h0, <<>>, 1, d), LAMBDA m :
    Collect(m.h, Len(h0), IF m.err = "" /\ ~m.fail THEN m.value ELSE None).h)

InitIso ==
  /\ heap \in {MatchedHeap(ListHeap, d) : d \in DataSet}
              \cup {MatchedHeap(NestedTlvHeap, Hex(<<165, 1, 0>>))}
  /\ stack = <<>>
  /\ last = Last("init", 0, "", None, None, None, FALSE, "", 0)
  /\ ops = 0

NextIso ==
  \/ \E t \in DOMAIN heap : \E name \in Names(heap, t), v \in AssignValues(heap, t) :
       SetAttr(t, name, v)
  \/ \E t \in DOMAIN heap : Call(t, "", None)
  \/ \E t \in DOMAIN heap : \E name \in Names(heap, t), v \in AssignValues(heap, t) :
       Call(t, name, v)
  \/ \E t \in DOMAIN heap : Synth(t)

SpecIso == InitIso /\ [][NextIso]_vars

\* the fields of the tables of U, and the synthesis of table root, are the
\* same before and after the step
TreeUnchanged(U, root) ==
  /\ \A u \in U : heap'[u].fields = heap[u].fields
  /\ T3Table_get_value(heap', stack', root).v = T3Table_get_value(heap, stack, root).v
  /\ T3Table_get_value(heap', stack', root).err = T3Table_get_value(heap, stack, root).err

(* C8, as stated.  After R = t(...), an assignment to a field of a table   *)
(* reachable from R (nested tables and elements of List values included)   *)
(* leaves the field values and the synthesis of the tree S of t unchanged, *)
(* and an assignment to a field of a table of S leaves R unchanged.        *)

C8_IsoStep ==
  (last.op = "call" /\ last.err = "" /\ last'.op = "set" /\ last'.err = "")
    => LET S == TopParent(heap, last.t)
           R == last.res.tid
       IN /\ last'.t \in TreeOf(heap, {R}) => TreeUnchanged(TreeOf(heap, {S}), S)
          /\ last'.t \in TreeOf(heap, {S}) => TreeUnchanged(TreeOf(heap, {R}), R)

\* C8, as stated: every assignment that follows a call leaves the other tree unchanged
C8_CopyIsolation == [][C8_IsoStep]_vars

----------------------------------------------------------------------------
(* Matching of tables with an Any field that is followed by fields.        *)

InitAny ==
  /\ heap \in {RApduHeap, RApduLeHeap, AnyLvHeap}
  /\ stack = <<>>
  /\ last = Last("init", 0, "", None, None, None, FALSE, "", 0)
  /\ ops = 0

NextAny == \E t \in DOMAIN heap, d \in AnyDataSet : Match(t, d)

SpecAny == InitAny /\ [][NextAny]_vars

\* the place, among the enabled fields idxs of fs, of the first Any field
\* that has a field after it (0: none)
AnyPos(fs, idxs) ==
  LET S == {j \in 1..(Len(idxs) - 1) : fs[idxs[j]].pattern.kind = "Any"}
  IN IF S = {} THEN 0 ELSE CHOOSE j \in S : \A k \in S : j <= k

\* The match of table t with data d up to its first Any field that has
\* fields after it: D is the data at the position of the Any field, loose
\* the lengths k of the prefixes of D after which the remaining fields
\* match, exact those after which they match with no remainder.
AnyCase(h, st, t, d) ==
  LET c == T3Table_copy(h, t)
      idxs == EnabledIdxs(c.h[c.x].fields, 1)
      a == AnyPos(c.h[c.x].fields, idxs)
      pre == IF a = 1 THEN M(c.h, st, NULL, d, FALSE, "")
             ELSE T3PatternTable_match(c.h, st, c.x, SubSeq(idxs, 1, a - 1), d)
      D == pre.rest
      q(k) == T3PatternTable_match(pre.h, pre.st, c.x,
                                   SubSeq(idxs, a + 1, Len(idxs)), SliceFrom(D, k))
      loose == {k \in 0..PyLen(D, 0) : q(k).err = "" /\ ~q(k).fail}
  IN [field |-> idxs[a], D |-> D, loose |-> loose,
      exact |-> {k \in loose : q(k).rest.kind \in {"NULL", "None"}}]

HasAny(h, t) ==
  AnyPos(h[t].fields, EnabledIdxs(h[t].fields, 1)) # 0

SetMin(S) == CHOOSE x \in S : \A y \in S : x <= y
SetMax(S) == CHOOSE x \in S : \A y \in S : x >= y

(* C10.  When a table has an Any field followed by further fields, a       *)
(* successful match assigns to the Any field the longest prefix of the     *)
(* data at that position that leaves at least one byte and after which the *)
(* remaining fields match (with or without a remainder).                   *)

C10_AnyLongest ==
  (MatchOk /\ HasAny(heap, last.t))
    => LET a == AnyCase(heap, stack, last.t, last.arg)
           L == {k \in a.loose : k < PyLen(a.D, 0)}
       IN /\ L # {}
          /\ heap[last.res.tid].fields[a.field].value = SliceTo(a.D, SetMax(L))

(* C10, as stated.  A successful match assigns to the Any field the        *)
(* shortest prefix after which the remaining fields match, with or without *)
(* a remainder, or the shortest after which they match with no remainder.  *)

C10_AnyShortest ==
  (MatchOk /\ HasAny(heap, last.t))
    => LET a == AnyCase(heap, stack, last.t, last.arg)
           v == heap[last.res.tid].fields[a.field].value
       IN \/ a.loose # {} /\ v = SliceTo(a.D, SetMin(a.loose))
          \/ a.exact # {} /\ v = SliceTo(a.D, SetMin(a.exact))

\* a successful match where several prefixes permit the remaining fields
\* to match with no remainder, and the Any field received bytes
C10_Witness ==
  /\ MatchOk /\ HasAny(heap, last.t)
  /\ LET a == AnyCase(heap, stack, last.t, last.arg)
     IN /\ Cardinality(a.exact) > 1
        /\ heap[last.res.tid].fields[a.field].value.kind = "Hex"

----------------------------------------------------------------------------
(* Tables of test_cyclic: a field bound to itself, two fields bound to     *)
(* each other, the chain A -> B -> ... -> K -> L of eleven bindings, and   *)
(* the chain closed to a ring by binding L to A.                           *)

CycAHeap == T3Table_add(EmptyHeap, 1, T3PatternSection(1), "A", NULL, Bnd(7, "len", "A"))

CycABHeap ==
  LET h1 == T3Table_add(EmptyHeap, 1, T3PatternSection(1), "A", NULL, Bnd(8, "len", "B"))
  IN T3Table_add(h1, 1, T3PatternSection(1), "B", NULL, Bnd(9, "len", "A"))

ChainNames == <<"A", "B", "C", "D", "E", "F", "G", "H", "I", "J", "K", "L">>

RECURSIVE ChainFields(_, _)
\* fields i..11 of the chain added to heap h
ChainFields(h, i) ==
  IF i > 11 THEN h
  ELSE ChainFields(T3Table_add(h, 1, T3PatternSection(1), ChainNames[i], NULL,
                               Bnd(10 + i, "len", ChainNames[i + 1])), i + 1)

ChainHeap ==
  T3Table_add(ChainFields(EmptyHeap, 1), 1, T3PatternSection(1), "L", Hex(<<1>>), NoBinding)

RingHeap ==
  T3Table_add(ChainFields(EmptyHeap, 1), 1, T3PatternSection(1), "L", NULL, Bnd(22, "len", "A"))

\* The fields (of the same table) that the binding of field i of t reads
Deps(h, t, i) ==
  LET b == h[t].fields[i].binding
  IN IF b.id = 0 THEN {}
     ELSE IF b.name = "*"
     THEN {j \in 1..NFields(h, t) :
             j > i /\ \A k \in 1..(i - 1) : h[t].fields[k].binding.id # b.id}
     ELSE FieldIdx(h, t, b.name)

RECURSIVE DepClosure(_, _, _)
DepClosure(h, t, S) ==
  LET N == S \cup UNION {Deps(h, t, j) : j \in S}
  IN IF N = S THEN S ELSE DepClosure(h, t, N)

\* field i of t participates in a cycle of bindings
InCycle(h, t, i) == i \in DepClosure(h, t, Deps(h, t, i))

InitCycle ==
  /\ heap \in {CycAHeap, CycABHeap, ChainHeap, RingHeap}
  /\ stack = <<>>
  /\ last = Last("init", 0, "", None, None, None, FALSE, "", 0)
  /\ ops = 0

NextCycle ==
  \/ \E t \in DOMAIN heap, d \in DataSet : Match(t, d)
  \/ \E t \in DOMAIN heap : \E name \in Names(heap, t), v \in {None, Byte00, Hex(<<1, 1>>)} :
       SetAttr(t, name, v)
  \/ \E t \in DOMAIN heap : \E name \in Names(heap, t) : Read(t, name)
  \/ \E t \in DOMAIN heap : Synth(t)

SpecCycle == InitCycle /\ [][NextCycle]_vars

\* the last operation read a field that participates in a cycle
ReadInCycle ==
  /\ last.op = "read"
  /\ TheField(heap, last.t, last.name) # 0
  /\ InCycle(heap, last.t, TheField(heap, last.t, last.name))

(* C5.  A read of a field that participates in a cycle of bindings, in a   *)
(* table where no field of a cycle holds a stored value (each is NULL or   *)
(* None), raises the runtime error and leaves the binding stack empty.     *)

----------------------------------------------------------------------------
(* The dependency graph of the fields of a heap.                           *)

\* the fields of table t, as nodes of the dependency graph
FieldsOf(h, t) == {<<t, i>> : i \in 1..NFields(h, t)}

\* the tables a value holds
RefsOfValue(v) ==
  IF v.kind = "Table" THEN {v.tid}
  ELSE IF v.kind = "List" THEN {v.items[j] : j \in 1..Len(v.items)}
  ELSE {}

\* The fields that resolving field n[2] of table n[1] may read: the fields
\* its binding reads, and every field of a table (of the tables of a list)
\* that is its value, which synthesis and update_len read.
NodeDeps(h, n) ==
  {<<n[1], j>> : j \in Deps(h, n[1], n[2])}
  \cup UNION {FieldsOf(h, u) : u \in RefsOfValue(h[n[1]].fields[n[2]].value)}

RECURSIVE NodeClosure(_, _)
NodeClosure(h, S) ==
  With(S \cup UNION {NodeDeps(h, n) : n \in S}, LAMBDA N :
    IF N = S THEN S ELSE NodeClosure(h, N))

\* no field of the heap depends on itself
Acyclic(h) ==
  \A t \in DOMAIN h : \A n \in FieldsOf(h, t) : n \notin NodeClosure(h, NodeDeps(h, n))

\* A session with the Apdu of test_apdu: assignments of None and of a byte
\* to its fields, and reads of its fields, up to MaxSession operations.
InitSession ==
  /\ heap = ApduHeap
  /\ stack = <<>>
  /\ last = Last("init", 0, "", None, None, None, FALSE, "", 0)
  /\ ops = 0

NextSession ==
  \/ \E t \in DOMAIN heap : \E name \in Names(heap, t), v \in {None, Byte00} :
       ops < MaxSession /\ SetAttrOp(t, name, v)
  \/ \E t \in DOMAIN heap : \E name \in Names(heap, t) :
       ops < MaxSession /\ ReadOp(t, name)

SpecSession == InitSession /\ [][NextSession]_vars

(* C6, as stated.  In a heap whose binding dependencies are acyclic, a     *)
(* read of a field and a synthesis never raise the circular-binding error, *)
(* however long the chain and however deep the nesting of copies.          *)

C6_NoFalseCycle ==
  (last.op \in {"read", "synth"} /\ last.err = "RuntimeError") => ~Acyclic(heap)

----------------------------------------------------------------------------
(* The match of the field patterns of a table, before T3Table.match looks  *)
(* at what was consumed.                                                   *)

\* P.match(data) of T3Table.match, for the table t of heap h
FieldsMatch(h, st, t, data) ==
  With(T3Table_copy(h, t), LAMBDA c :
    T3PatternTable_match(c.h, st, c.x, EnabledIdxs(c.h[c.x].fields, 1), data))

\* the number of bytes of data that a match with the rest r consumed (the
\* rest of an Any pattern is None: everything was consumed)
Consumed(data, r) ==
  PyLen(data, 0) - (IF r.kind = "Hex" THEN Len(r.digits) ELSE 0)

(* C11, as stated.  A match of a table in which every field pattern        *)
(* succeeded reports fail = TRUE exactly when no byte was consumed, zero    *)
(* bytes in the data included.                                             *)

C11_FailIffNothingConsumed ==
  (last.op = "match" /\ last.err = "" /\ heap[last.t].cls = "T3Table")
    => LET pm == FieldsMatch(heap, stack, last.t, last.arg)
       IN (pm.err = "" /\ ~pm.fail)
            => (last.fail <=> Consumed(last.arg, pm.rest) = 0)

----------------------------------------------------------------------------
(* The << operator of tables and repeaters.                                *)

\* T3Repeater.match
T3Repeater_match(h, st, P, data) ==
  RepeaterLoop(h, st, P, IF IsNumber(data) THEN data ELSE Neg, 0, <<>>)

\* bool(m) of a T3Match m: the class defines neither __nonzero__ nor __len__
T3Match_bool(m) == TRUE

\* T3Table.__lshift__: the exception MatchingFailure(m) keeps m
T3Table_lshift(h, st, t, data) ==
  With(T3Table_match(h, st, t, data), LAMBDA m :
    IF m.err = "" /\ m.fail THEN [m EXCEPT !.err = "MatchingFailure"] ELSE m)

\* T3Repeater.__lshift__
T3Repeater_lshift(h, st, P, data) ==
  With(T3Repeater_match(h, st, P, data), LAMBDA m :
    IF m.err = "" /\ ~T3Match_bool(m) THEN [m EXCEPT !.err = "MatchingFailure"] ELSE m)

\* the end of v = X << d: the value returned, or nothing when it raised
ShiftDone(op, t, name, d, m) ==
  /\ stack' = m.st
  /\ With(Collect(m.h, Len(heap), IF m.err = "" THEN m.value ELSE None), LAMBDA g :
       /\ heap' = g.h
       /\ last' = Last(op, t, name, d, g.v, m.rest, m.fail, m.err, Len(heap)))
  /\ ops' = ops + 1

\* v = T << d
LShift(t, d) ==
  /\ ops < MaxOps
  /\ ShiftDone("lshift", t, "", d, T3Table_lshift(heap, stack, t, d))

\* v = tr << d, for the repeater tr that is the pattern of field i of t
RepLShift(t, i, d) ==
  /\ ops < MaxOps
  /\ heap[t].fields[i].pattern.kind = "Repeater"
  /\ ShiftDone("rlshift", t, heap[t].fields[i].name, d,
               T3Repeater_lshift(heap, stack, heap[t].fields[i].pattern, d))

InitShift ==
  /\ heap \in {ApduHeap, TlvHeap, ListHeap}
  /\ stack = <<>>
  /\ last = Last("init", 0, "", None, None, None, FALSE, "", 0)
  /\ ops = 0

NextShift ==
  \/ \E t \in DOMAIN heap, d \in DataSet : LShift(t, d)
  \/ \E t \in DOMAIN heap, d \in DataSet : \E i \in 1..NFields(heap, t) : RepLShift(t, i, d)

SpecShift == InitShift /\ [][NextShift]_vars

\* the match that the last << made
ShiftMatch ==
  IF last.op = "lshift" THEN T3Table_match(heap, stack, last.t, last.arg)
  ELSE T3Repeater_match(heap, stack,
                        heap[last.t].fields[TheField(heap, last.t, last.name)].pattern,
                        last.arg)

(* C12, as stated.  X << d, for a table or a repeater X, raises            *)
(* MatchingFailure whenever X.match(d) has fail = TRUE, and returns the    *)
(* matched value only when the match succeeded.                            *)

C12_ShiftRaisesOnFail ==
  (last.op \in {"lshift", "rlshift"} /\ ShiftMatch.err = "")
    => /\ ShiftMatch.fail => last.err = "MatchingFailure"
       /\ ~ShiftMatch.fail => last.err = ""

----------------------------------------------------------------------------
(* T3Set: a table whose fields are matched in the order of the data.  The  *)
(* pattern of a child added with a prefix is T3PatternPrefixed(prefix,     *)
(* child): kind "Prefixed", digits the prefix, tid the child.              *)

MaxSetData == 5

T3PatternPrefixed(ds, t) == Pat("Prefixed", 0, 0, ds, "", t)

\* T3Set.add(prefix, name = u) for a table u and an integer prefix:
\* _set_pattern coerces the prefix with the child's _coerce
T3Set_add(h, t, prefix, name, u) ==
  T3Table_add(h, t, T3PatternPrefixed(BytesOfInt(prefix), u), name, Tbl(u), NoBinding)

\* bool(R) of the data still to be matched: T3Number.__nonzero__; None is false
Truthy(v) == IF IsNumber(v) THEN NumKey(v) # <<>> ELSE FALSE

RemoveAt(s, i) == SubSeq(s, 1, i - 1) \o SubSeq(s, i + 1, Len(s))

\* table.add(field) for a T3Field: the field itself is appended
T3Table_add_field(h, tb, f) ==
  With([h EXCEPT ![tb].fields = Append(@, f)], LAMBDA h1 :
    IF f.value.kind = "Table" THEN [h1 EXCEPT ![f.value.tid].parent = tb] ELSE h1)

\* field.pattern.match(R) of T3Set.match: a function pattern is called
\* without its table
SetFieldMatch(h, st, tb, P, R) ==
  IF P.kind = "Fn" THEN M(h, st, None, R, TRUE, "TypeError")
  ELSE PatMatch(h, st, tb, P, R)

RECURSIVE SetTry(_, _, _, _, _, _)

\* the end of a round of T3Set.match: fs are the candidates left
SetNext(h, st, tb, fs, R) ==
  IF fs # <<>> /\ Truthy(R) THEN SetTry(h, st, tb, fs, 1, R)
  ELSE M(T3Table_auto_parent(h, tb), st, Tbl(tb), R, FALSE, "")

\* the for loop of T3Set.match, at candidate i
SetTry(h, st, tb, fs, i, R) ==
  IF i > Len(fs) THEN M(h, st, None, R, TRUE, "")
  ELSE With(SetFieldMatch(h, st, tb, fs[i].pattern, R), LAMBDA m :
         IF m.err # "" THEN m
         ELSE IF m.fail THEN SetTry(m.h, m.st, tb, fs, i + 1, R)
         ELSE SetNext(T3Table_add_field(m.h, tb, [fs[i] EXCEPT !.value = m.value]),
                      m.st, tb, RemoveAt(fs, i), m.rest))

\* T3Set.match
T3Set_match(h, st, t, data0) ==
  With(IF IsNumber(data0) THEN data0 ELSE Neg, LAMBDA data :
    With(CopyFields(Append(h, Tab(h[t].cls, <<>>, 0)),
                    SelectSeq(h[t].fields, Enabled), 1, <<>>), LAMBDA c :
      SetTry(c.h, st, Len(h) + 1, c.x, 1, data)))

\* test_tlv: T1 = Tlv(Tag = a, Value = v), T2 = Tlv(Tag = b, Value = v),
\* ts = T3Set(); ts.add(a, T1 = T1); ts.add(b, T2 = T2).  Table 1 is Tlv,
\* 2 and 3 are the children, 4 is the set.
TlvOf(h, tag, v) ==
  With(T3Table_call(h, 1, "Tag", Hex(<<tag>>)), LAMBDA c :
    T3Table_update(c.h, c.x, "Value", v).h)

SetHeap(a, b, v) ==
  With(Append(TlvOf(TlvOf(TlvHeap, a, v), b, v), Tab("T3Set", <<>>, 0)), LAMBDA h :
    T3Set_add(T3Set_add(h, 4, a, "T1", 2), 4, b, "T2", 3))

SetDataSet == {Hex(s) : s \in SeqsUpTo(0..MaxByte, MaxSetData) \ {<<>>}}

InitSet ==
  /\ heap \in {SetHeap(a, b, v) : a \in 0..MaxByte, b \in 0..MaxByte, v \in {NULL, Byte00}}
  /\ stack = <<>>
  /\ last = Last("init", 0, "", None, None, None, FALSE, "", 0)
  /\ ops = 0

\* m = ts.match(data) for a set ts
SetMatch(t, d) ==
  /\ ops < MaxOps
  /\ heap[t].cls = "T3Set"
  /\ With(T3Set_match(heap, stack, t, d), LAMBDA m :
       /\ stack' = m.st
       /\ With(Collect(m.h, Len(heap), IF m.err = "" /\ ~m.fail THEN m.value ELSE None),
               LAMBDA g :
            /\ heap' = g.h
            /\ last' = Last("smatch", t, "", d,
                            IF m.err = "" /\ ~m.fail THEN g.v ELSE m.value,
                            m.rest, m.fail, m.err, Len(heap))))
  /\ ops' = ops + 1

\* a child of a set gets a new value
SetChildValue(t, v) ==
  /\ ops < MaxOps
  /\ heap[t].cls = "T3Table" /\ heap[t].parent # 0
  /\ With(T3Table_update(heap, t, "Value", v), LAMBDA u :
       /\ heap' = u.h
       /\ last' = Last("set", t, "Value", v, None, None, FALSE, u.err, Len(heap)))
  /\ stack' = stack
  /\ ops' = ops + 1

NextSet ==
  \/ \E t \in DOMAIN heap, d \in SetDataSet : SetMatch(t, d)
  \/ \E t \in DOMAIN heap, v \in {NULL, Byte00, Hex(<<1>>)} : SetChildValue(t, v)

SpecSet == InitSet /\ [][NextSet]_vars

\* the prefixes of the children of set t are pairwise distinct
DistinctPrefixes(h, t) ==
  /\ h[t].cls = "T3Set"
  /\ \A i \in 1..NFields(h, t) : h[t].fields[i].pattern.kind = "Prefixed"
  /\ \A i, j \in 1..NFields(h, t) :
       i # j => h[t].fields[i].pattern.digits # h[t].fields[j].pattern.digits

\* the encodings of a Tlv child with the given tag: tag, length, value
TlvEncodings(tag) == {tag \o <<Len(v)>> \o v : v \in SeqsUpTo(0..MaxByte, 1)}

\* the concatenations of one encoding of each child i in I, in every order
RECURSIVE PermConcats(_, _, _)
PermConcats(h, t, I) ==
  IF I = {} THEN {<<>>}
  ELSE UNION {{e \o r : e \in TlvEncodings(h[t].fields[i].pattern.digits),
                        r \in PermConcats(h, t, I \ {i})} : i \in I}

\* the data of the last match is a permutation of the children's encodings
PermInput ==
  /\ last.op = "smatch"
  /\ DistinctPrefixes(heap, last.t)
  /\ NFields(heap, last.t) > 1
  /\ last.arg.digits \in PermConcats(heap, last.t, 1..NFields(heap, last.t))

\* the tags of the children of the populated set u, in field order
RECURSIVE TagsInOrder(_, _, _)
TagsInOrder(h, u, i) ==
  IF i > NFields(h, u) THEN <<>>
  ELSE <<h[u].fields[i].pattern.digits>> \o TagsInOrder(h, u, i + 1)

\* the tags met in data that is a sequence of Tlv encodings
RECURSIVE TagsOfData(_)
TagsOfData(ds) ==
  IF Len(ds) < 2 THEN <<>>
  ELSE <<SubSeq(ds, 1, 1)>> \o TagsOfData(SubSeq(ds, 3 + ds[2], Len(ds)))

SynthOf(h, st, v) ==
  IF v.kind = "Table" THEN T3Table_get_value(h, st, v.tid) ELSE R3(None, st, "TypeError")

(* C13 (Set commutativity): when a Set whose children have pairwise        *)
(* distinct prefixes is matched against a concatenation, in any order, of  *)
(* one encoding of each child, the match succeeds with no remainder, the   *)
(* populated tree lists the children in the order of the input, and the    *)
(* synthesis of the tree is the input.                                     *)
C13_SetCommutes ==
  PermInput =>
    /\ last.err = "" /\ ~last.fail
    /\ PyLen(last.rest, 0) = 0
    /\ TagsInOrder(heap, last.res.tid, 1) = TagsOfData(last.arg.digits)
    /\ SynthOf(heap, stack, last.res).v = last.arg


\* the candidates of set t that the populated set u does not hold
Remaining(h, t, u) ==
  {i \in 1..NFields(h, t) :
     /\ Enabled(h[t].fields[i])
     /\ \A j \in 1..NFields(h, u) : h[u].fields[j].name # h[t].fields[i].name}

\* candidate i of set t matches the data R
CandidateMatches(h, st, t, i, R) ==
  With(SetFieldMatch(h, st, t, h[t].fields[i].pattern, R), LAMBDA m :
    m.err = "" /\ ~m.fail)

(* C14 (Set failure): T3Set.match fails whenever the data still to be      *)
(* matched is non-empty, whatever its bytes, and no remaining candidate    *)
(* matches it; it succeeds only when every byte of the data was consumed.  *)
C14_SetFailure ==
  (last.op = "smatch" /\ last.err = "" /\ ~last.fail)
    => /\ PyLen(last.rest, 0) = 0
       /\ PyLen(last.rest, 0) > 0
            => \E i \in Remaining(heap, last.t, last.res.tid) :
                 CandidateMatches(heap, stack, last.t, i, last.rest)

----------------------------------------------------------------------------
(* T3Repeater: tr = T3Repeater(E, minimum, maximum) for the table E of     *)
(* test_list's kind (a length and a value of that length), held as the     *)
(* pattern of the field Data of table 1.                                   *)

MaxMin == 2
MaxMax == 2

RepHeap(mn, mx) ==
  [ListHeap EXCEPT ![1].fields[2].pattern = T3Repeater(2, mn, mx)]

InitRep ==
  /\ heap \in {RepHeap(mn, mx) : mn \in 0..MaxMin, mx \in (1..MaxMax) \cup {MAXSIZE}}
  /\ stack = <<>>
  /\ last = Last("init", 0, "", None, None, None, FALSE, "", 0)
  /\ ops = 0

\* m = tr.match(data) for the repeater tr of field i of table t
RepMatch(t, i, d) ==
  /\ ops < MaxOps
  /\ heap[t].fields[i].pattern.kind = "Repeater"
  /\ With(T3Repeater_match(heap, stack, heap[t].fields[i].pattern, d), LAMBDA m :
       /\ stack' = m.st
       /\ With(Collect(m.h, Len(heap), IF m.err = "" THEN m.value ELSE None), LAMBDA g :
            /\ heap' = g.h
            /\ last' = Last("rmatch", t, heap[t].fields[i].name, d, g.v, m.rest, m.fail,
                            m.err, Len(heap))))
  /\ ops' = ops + 1

NextRep ==
  \/ \E t \in DOMAIN heap, d \in SetDataSet :
       \E i \in 1..NFields(heap, t) : RepMatch(t, i, d)
  \/ \E t \in DOMAIN heap, d \in DataSet : Match(t, d)

SpecRep == InitRep /\ [][NextRep]_vars

\* the successive applications of table t, from the data R on, up to the
\* first one that fails and at most n of them: the match results
RECURSIVE Applications(_, _, _, _, _)
Applications(h, st, t, R, n) ==
  IF n = 0 THEN <<>>
  ELSE With(T3Table_match(h, st, t, R), LAMBDA m :
         IF m.err # "" \/ m.fail THEN <<m>>
         ELSE <<m>> \o Applications(m.h, m.st, t, m.rest, n - 1))

\* the repeater of the last match and its applications to the data
LastRepeater == heap[last.t].fields[TheField(heap, last.t, last.name)].pattern
LastApplications ==
  Applications(heap, stack, LastRepeater.tid, last.arg,
               Min(LastRepeater.m, MaxSetData + 1))
Successes(A) == Cardinality({i \in 1..Len(A) : A[i].err = "" /\ ~A[i].fail})

\* the names and values of the fields of a table
Content(h, t) == [j \in 1..NFields(h, t) |-> <<h[t].fields[j].name, h[t].fields[j].value>>]

\* the result of the last match is a failure exactly when fails holds, and
\* otherwise the list of the k matched copies and the rest of the k-th match
RepResultIs(A, k, fails) ==
  /\ last.fail <=> fails
  /\ ~last.fail =>
       /\ last.res.kind = "List" /\ Len(last.res.items) = k
       /\ \A i \in 1..k : Content(heap, last.res.items[i]) = Content(A[i].h, A[i].value.tid)
       /\ last.rest = IF k = 0 THEN last.arg ELSE A[k].rest

RepAsStated(A, k) == RepResultIs(A, k, k < LastRepeater.n)
RepAsCoded(A, k) == RepResultIs(A, k, k < LastRepeater.n /\ k < LastRepeater.m)

(* C15 (Repeater), as stated: the repeater applies its table again and     *)
(* again from the rest of the previous application and stops at the first  *)
(* failure or after maximum successes; with k successes it fails exactly   *)
(* when k is less than the minimum, and otherwise returns the list of the  *)
(* k matched copies in order and the data left after the k-th match.       *)
C15_FailIffBelowMin ==
  (last.op = "rmatch" /\ last.err = "")
    => RepAsStated(LastApplications, Successes(LastApplications))

(* C15 (Repeater), as the code has it: the minimum is tested only when an  *)
(* application fails, so the repeater fails exactly when k is less than    *)
(* both the minimum and the maximum; a repeater whose minimum exceeds its  *)
(* maximum returns maximum copies.  The rest is as stated.                 *)
C15_Repeater ==
  (last.op = "rmatch" /\ last.err = "")
    => RepAsCoded(LastApplications, Successes(LastApplications))

\* a repeater with a minimum returned two copies, and one that failed
C15_Witness ==
  /\ last.op = "rmatch" /\ last.err = "" /\ ~last.fail
  /\ LastRepeater.n > 0
  /\ last.res.kind = "List" /\ Len(last.res.items) = 2
  /\ Len(last.rest.digits) > 0

----------------------------------------------------------------------------
(* Synthesis after assignments: the tables of the tests and the empty      *)
(* table, up to MaxSynthOps operations.                                    *)

MaxSynthOps == 3

InitSynth ==
  /\ heap \in Prototypes \cup {EmptyHeap, SetHeap(0, 1, Byte00)}
  /\ stack = <<>>
  /\ last = Last("init", 0, "", None, None, None, FALSE, "", 0)
  /\ ops = 0

\* Hex(T), up to MaxSynthOps operations
SynthN(t) ==
  /\ ops < MaxSynthOps
  /\ With(T3Table_get_value(heap, stack, t), LAMBDA r :
       /\ stack' = r.st
       /\ last' = Last("synth", t, "", None, r.v, None, FALSE, r.err, Len(heap)))
  /\ ops' = ops + 1
  /\ UNCHANGED heap

NextSynth ==
  \/ \E t \in DOMAIN heap : SynthN(t)
  \/ \E t \in DOMAIN heap : \E name \in Names(heap, t), v \in AssignValues(heap, t) :
       ops < MaxSynthOps /\ SetAttrOp(t, name, v)

SpecSynth == InitSynth /\ [][NextSynth]_vars

RECURSIVE FlatTable(_, _, _, _)

\* the bytes of a value: a number's digits, a nested table's bytes; <<-1>> stands for the number Hex(None), which a binding over
\* disabled fields gives and which cannot be concatenated
FlatValue(h, st, v) ==
  CASE v.kind = "Hex" -> v.digits
    [] v.kind \in {"NULL", "None"} -> <<>>
    [] v.kind = "Table" -> FlatTable(h, st, v.tid, 1)
    [] OTHER -> <<-1>>

\* the bytes of the current values of the fields i.. of table t, in
\* insertion order; a field whose value is None is skipped
FlatTable(h, st, t, i) ==
  IF i > NFields(h, t) THEN <<>>
  ELSE IF ~Enabled(h[t].fields[i]) THEN FlatTable(h, st, t, i + 1)
  ELSE With(T3Field_get_value(h, st, t, i), LAMBDA r :
         FlatValue(h, st, r.v) \o FlatTable(h, st, t, i + 1))

NumberOf(ds) == IF ds = <<>> THEN NULL ELSE IF ds = <<-1>> THEN Neg ELSE Hex(ds)

(* C16 (synthesis): Hex(T) is the concatenation, in insertion order, of    *)
(* the current value of each field of T, a nested table being synthesized  *)
(* in the same way and null values being skipped; when no field bears a    *)
(* value the result is NULL.                                               *)
C16_Synthesis ==
  (last.op = "synth" /\ last.err = "")
    => last.res = NumberOf(FlatTable(heap, stack, last.t, 1))

\* a table with a nested table and a bound field was synthesized
C16_Witness ==
  /\ last.op = "synth" /\ last.err = ""
  /\ \E i \in 1..NFields(heap, last.t) : heap[last.t].fields[i].value.kind = "Table"
  /\ \E i \in 1..NFields(heap, last.t) : heap[last.t].fields[i].binding.id # 0
  /\ last.res.kind = "Hex" /\ Len(last.res.digits) > 3

----------------------------------------------------------------------------
(* T3Table.find.                                                           *)

\* bool(res) of a value that find got from a nested table
TruthyValue(h, v) ==
  CASE IsNumber(v) -> Truthy(v)
    [] v.kind = "Table" -> NFields(h, v.tid) > 0
    [] v.kind = "List" -> Len(v.items) > 0
    [] OTHER -> FALSE

RECURSIVE T3Table_find(_, _, _, _)
RECURSIVE FindNested(_, _, _, _, _)

\* the second loop of T3Table.find, at field i
FindNested(h, st, t, name, i) ==
  IF i > NFields(h, t) THEN R3(None, st, "")
  ELSE IF h[t].fields[i].value.kind # "Table" THEN FindNested(h, st, t, name, i + 1)
  ELSE With(T3Table_find(h, st, h[t].fields[i].value.tid, name), LAMBDA r :
         IF ~r.ok \/ TruthyValue(h, r.v) THEN r
         ELSE FindNested(h, r.st, t, name, i + 1))

\* T3Table.find
T3Table_find(h, st, t, name) ==
  IF FieldIdx(h, t, name) # {}
  THEN T3Field_get_value(h, st, t, SetMin(FieldIdx(h, t, name)))
  ELSE FindNested(h, st, t, name, 1)

\* top = T3Table().add(a, A = a).add(b, B = b) with a holding a table x and
\* a one-byte field Z, and b and x each holding a one-byte field K
FindHeap ==
  LET h0 == [i \in 1..4 |-> Tab("T3Table", <<>>, 0)]
      h1 == T3Table_add(h0, 4, T3PatternSection(1), "K", Hex(<<1>>), NoBinding)
      h2 == T3Table_add(h1, 3, T3PatternSection(1), "K", Hex(<<1, 1>>), NoBinding)
      h3 == T3Table_add(h2, 2, PatTable(4), "X", Tbl(4), NoBinding)
      h4 == T3Table_add(h3, 2, T3PatternSection(1), "Z", Byte00, NoBinding)
      h5 == T3Table_add(h4, 1, PatTable(2), "A", Tbl(2), NoBinding)
  IN T3Table_add(h5, 1, PatTable(3), "B", Tbl(3), NoBinding)

InitFind ==
  /\ heap \in {FindHeap, NestedTlvHeap}
  /\ stack = <<>>
  /\ last = Last("init", 0, "", None, None, None, FALSE, "", 0)
  /\ ops = 0

\* the names of the fields of the tree of t, and an unknown one
TreeNames(h, t) == UNION {Names(h, u) : u \in TreeOf(h, {t})}

\* T.find(name)
Find(t, name) ==
  /\ ops < MaxOps
  /\ With(T3Table_find(heap, stack, t, name), LAMBDA r :
       /\ stack' = r.st
       /\ last' = Last("find", t, name, None, r.v, None, FALSE, r.err, Len(heap)))
  /\ ops' = ops + 1
  /\ UNCHANGED heap

NextFind ==
  \/ \E t \in DOMAIN heap : \E name \in TreeNames(heap, t) : Find(t, name)
  \/ \E t \in DOMAIN heap : \E name \in Names(heap, t), v \in AssignValues(heap, t) :
       ops < MaxOps /\ SetAttrOp(t, name, v)

SpecFind == InitFind /\ [][NextFind]_vars

\* the tables held by the fields of the tables ts, in order
RECURSIVE TablesBelow(_, _, _, _)
TablesBelow(h, ts, k, i) ==
  IF k > Len(ts) THEN <<>>
  ELSE IF i > NFields(h, ts[k]) THEN TablesBelow(h, ts, k + 1, 1)
  ELSE (IF h[ts[k]].fields[i].value.kind = "Table"
        THEN <<h[ts[k]].fields[i].value.tid>> ELSE <<>>)
       \o TablesBelow(h, ts, k, i + 1)

\* the value of the first field called name in the tables ts of one depth,
\* then in the tables of the next depth; None when there is none
RECURSIVE BreadthFirst(_, _, _, _)
BreadthFirst(h, st, ts, name) ==
  IF ts = <<>> THEN R3(None, st, "")
  ELSE IF \E k \in 1..Len(ts) : FieldIdx(h, ts[k], name) # {}
  THEN With(SetMin({k \in 1..Len(ts) : FieldIdx(h, ts[k], name) # {}}), LAMBDA k :
         T3Field_get_value(h, st, ts[k], SetMin(FieldIdx(h, ts[k], name))))
  ELSE BreadthFirst(h, st, TablesBelow(h, ts, 1, 1), name)

(* C17 (find): T.find(name) is the value of the first field called name   *)
(* in breadth-first order over the tree of nested tables, whatever that    *)
(* value (a zero-valued number, an empty table), and None only when the    *)
(* tree has no field of that name.                                         *)
C17_FindBreadthFirst ==
  (last.op = "find" /\ last.err = "")
    => last.res = BreadthFirst(heap, stack, <<last.t>>, last.name).v

----------------------------------------------------------------------------
(* T3PatternValue (the literal pattern): a table with one field whose      *)
(* pattern is the literal v, matched against data or against NULL.         *)

LitHeap(ds) == T3Table_add(EmptyHeap, 1, T3PatternValue(ds), "F", NULL, NoBinding)

InitLit ==
  /\ heap \in {LitHeap(v.digits) : v \in DataSet}
  /\ stack = <<>>
  /\ last = Last("init", 0, "", None, None, None, FALSE, "", 0)
  /\ ops = 0

\* m = T3PatternValue(v).match(data), v the literal of field i of table t
LitMatch(t, i, d) ==
  /\ ops < MaxOps
  /\ heap[t].fields[i].pattern.kind = "Value"
  /\ With(T3PatternValue_match(heap, stack, heap[t].fields[i].pattern.digits, d), LAMBDA m :
       /\ stack' = m.st
       /\ last' = Last("lit", t, heap[t].fields[i].name, d, m.value, m.rest, m.fail,
                       m.err, Len(heap)))
  /\ ops' = ops + 1
  /\ UNCHANGED heap

NextLit ==
  \E t \in DOMAIN heap, d \in DataSet \cup {NULL} :
    \E i \in 1..NFields(heap, t) : LitMatch(t, i, d)

SpecLit == InitLit /\ [][NextLit]_vars

\* the data d starts with the bytes ds
StartsWith(d, ds) ==
  /\ d.kind = "Hex"
  /\ Len(d.digits) >= Len(ds)
  /\ SubSeq(d.digits, 1, Len(ds)) = ds

LastLiteral == heap[last.t].fields[TheField(heap, last.t, last.name)].pattern.digits

(* C18 (Literal): Literal(v).match(data) succeeds exactly when data starts *)
(* with the digits of v, and then consumes len(v) bytes; it fails when     *)
(* data is shorter than v and when data is NULL.                           *)
C18_Literal ==
  (last.op = "lit" /\ last.err = "")
    => /\ ~last.fail <=> StartsWith(last.arg, LastLiteral)
       /\ ~last.fail =>
            /\ last.res = Hex(LastLiteral)
            /\ PyLen(last.rest, 0) = PyLen(last.arg, 0) - Len(LastLiteral)

----------------------------------------------------------------------------
(* pattern_factory: table 1 has a field for each kind of argument, given   *)
(* as the pattern of add; table 2 has the same fields with a callback      *)
(* that returns the argument.                                              *)

RECURSIVE AddAll(_, _, _, _)
AddAll(h, t, names, viaCallback) ==
  IF names = {} THEN h
  ELSE With(CHOOSE n \in names : \A o \in names : ArgOrder(n) <= ArgOrder(o), LAMBDA n :
         AddAll(T3Table_add(h, t, IF viaCallback THEN T3PatternFunction(n)
                                   ELSE pattern_factory(ArgNamed(n)),
                            n, NULL, NoBinding),
                t, names \ {n}, viaCallback))

FactoryHeap ==
  AddAll(AddAll(<<Tab("T3Table", <<>>, 0), Tab("T3Table", <<>>, 0)>>, 1, ArgNames, FALSE),
         2, ArgNames, TRUE)

InitFactory ==
  /\ heap = FactoryHeap
  /\ stack = <<>>
  /\ last = Last("init", 0, "", None, None, None, FALSE, "", 0)
  /\ ops = 0

\* m = P.match(data) for the pattern P of field i of table t (a function
\* pattern is called with the table)
PatternMatch(t, i, d) ==
  /\ ops < MaxOps
  /\ With(PatMatch(heap, stack, t, heap[t].fields[i].pattern, d), LAMBDA m :
       /\ stack' = m.st
       /\ last' = Last("pmatch", t, heap[t].fields[i].name, d, m.value, m.rest, m.fail,
                       m.err, Len(heap)))
  /\ ops' = ops + 1
  /\ UNCHANGED heap

NextFactory ==
  \E t \in DOMAIN heap, d \in DataSet \cup {NULL} :
    \E i \in 1..NFields(heap, t) : PatternMatch(t, i, d)

SpecFactory == InitFactory /\ [][NextFactory]_vars

\* the pattern that the dispatch is said to give: a number is a literal
DispatchedAsStated(arg) ==
  IF "fn" \in DOMAIN arg THEN arg
  ELSE CASE arg.kind = "Int" -> T3PatternSection(arg.int)
         [] arg.kind \in {"Str", "Hex"} -> T3PatternValue(arg.digits)
         [] arg.kind = "Star" -> T3PatternAny

\* the same with a number taken, like an integer, for a count of bytes
DispatchedAsCoded(arg) ==
  IF "fn" \in DOMAIN arg THEN arg
  ELSE CASE arg.kind = "Int" -> T3PatternSection(arg.int)
         [] arg.kind = "Hex" -> T3PatternSection(IntOfBytes(arg.digits))
         [] arg.kind = "Str" -> T3PatternValue(arg.digits)
         [] arg.kind = "Star" -> T3PatternAny

SameMatch(m) ==
  /\ last.res = m.value /\ last.rest = m.rest
  /\ last.fail = m.fail /\ last.err = m.err

----------------------------------------------------------------------------
(* T3Bitset: a pattern of count bits with names for some of the values.    *)
(* The data is a Bin number (base 2), as T3Bitmap.match hands it on: kind  *)
(* "Bin", digits the bits.  A Bitset pattern: kind "Bitset", n the count,  *)
(* digits the named values one after the other.                            *)

MaxWidth == 2
MaxBits == 3

Bin(bs) == Val("Bin", bs, 0, <<>>, 0)
T3Bitset(w, named) == Pat("Bitset", w, 0, named, "", 0)

\* self.fields: the values that were given a name
BitsetFields(P) ==
  {SubSeq(P.digits, (j - 1) * P.n + 1, j * P.n) : j \in 1..(Len(P.digits) \div P.n)}

\* bits[a:] and bits[:b] of T3Number.__getitem__; an empty slice is NULL
BinSlice(bs) == IF bs = <<>> THEN NULL ELSE Bin(bs)

\* T3Bitset.match for Bin data or NULL: m is assigned only under "if name:"
T3Bitset_match(h, st, P, data) ==
  IF data.kind \notin {"Bin", "NULL"} THEN M(h, st, None, data, TRUE, "Unmodelled")
  ELSE With(SubSeq(data.digits, 1, Min(P.n, Len(data.digits))), LAMBDA value :
         IF Len(value) = P.n
         THEN IF value \in BitsetFields(P)
              THEN M(h, st, Bin(value),
                     BinSlice(SubSeq(data.digits, P.n + 1, Len(data.digits))), FALSE, "")
              ELSE M(h, st, None, data, FALSE, "UnboundLocalError")
         ELSE M(h, st, None, data, TRUE, ""))

\* the values of count w that have names: none, the first, two, or all
NamedChoices(w) ==
  IF w = 1 THEN {<<>>, <<0>>, <<1>>, <<0, 1>>}
  ELSE {<<>>, <<0, 0>>, <<0, 1, 1, 0>>, <<0, 0, 0, 1, 1, 0, 1, 1>>}

BitsHeap(w, named) ==
  T3Table_add(EmptyHeap, 1, T3Bitset(w, named), "B", NULL, NoBinding)

BitData == {BinSlice(s) : s \in SeqsUpTo(0..1, MaxBits)}

InitBits ==
  /\ heap \in {BitsHeap(w, named) : w \in 1..MaxWidth, named \in NamedChoices(1) \cup NamedChoices(2)}
  /\ \E w \in 1..MaxWidth : /\ heap[1].fields[1].pattern.n = w
                           /\ heap[1].fields[1].pattern.digits \in NamedChoices(w)
  /\ stack = <<>>
  /\ last = Last("init", 0, "", None, None, None, FALSE, "", 0)
  /\ ops = 0

\* m = bitset.match(bits) for the bitset of field i of table t
BitsetMatch(t, i, d) ==
  /\ ops < MaxOps
  /\ heap[t].fields[i].pattern.kind = "Bitset"
  /\ With(T3Bitset_match(heap, stack, heap[t].fields[i].pattern, d), LAMBDA m :
       /\ stack' = m.st
       /\ last' = Last("bmatch", t, heap[t].fields[i].name, d, m.value, m.rest, m.fail,
                       m.err, Len(heap)))
  /\ ops' = ops + 1
  /\ UNCHANGED heap

NextBits ==
  \E t \in DOMAIN heap, d \in BitData :
    \E i \in 1..NFields(heap, t) : BitsetMatch(t, i, d)

SpecBits == InitBits /\ [][NextBits]_vars

LastBitset == heap[last.t].fields[TheField(heap, last.t, last.name)].pattern

(* C20 (Bitset): a Bitset of width w matches every input of at least w     *)
(* bits, named or not: it never raises, fails only when fewer than w bits  *)
(* are there, and otherwise returns the first w bits and leaves the rest.  *)
C20_Bitset ==
  last.op = "bmatch"
    => /\ last.err = ""
       /\ last.fail <=> Len(last.arg.digits) < LastBitset.n
       /\ ~last.fail =>
            /\ last.res = Bin(SubSeq(last.arg.digits, 1, LastBitset.n))
            /\ last.rest = BinSlice(SubSeq(last.arg.digits, LastBitset.n + 1,
                                           Len(last.arg.digits)))

----------------------------------------------------------------------------
(* T3Bitmap: a table whose fields are sections of bits.  The data of a     *)
(* match is turned into a Bin number and padded with zeros on the left to  *)
(* a multiple of eight bits; the fields then take their bits in turn.      *)

MaxBitmapOps == 2

Zeros(n) == [i \in 1..n |-> 0]

\* T3Number._from_integer(n, 2): the digits of n, "0" for 0
RECURSIVE BitsOfInt(_)
BitsOfInt(n) == IF n < 2 THEN <<n>> ELSE Append(BitsOfInt(n \div 2), n % 2)

\* str.zfill(width)
ZFill(ds, width) == IF Len(ds) >= width THEN ds ELSE Zeros(width - Len(ds)) \o ds

\* the loop of _preserve_leading_zeros over the digits of a Hex number
\* (two digits a byte): the number of leading "0" digits
RECURSIVE LeadingZeroDigits(_)
LeadingZeroDigits(ds) ==
  IF ds = <<>> THEN 0
  ELSE IF Head(ds) = 0 THEN 2 + LeadingZeroDigits(Tail(ds))
  ELSE IF Head(ds) < 16 THEN 1 ELSE 0

\* no padding: the digits written by _from_integer
T3Number_drop_leading_zeros(str, zero, k, K2, K1) == str

\* T3Number._preserve_leading_zeros: str the digits written by
\* _from_integer, zero whether _int = 0, k the leading zeros of the source,
\* K2 and K1 the digits per byte of the source and of the target base
T3Number_preserve_leading_zeros(str, zero, k, K2, K1) ==
  IF k < K2 THEN str
  ELSE With(K1 * (k \div K2), LAMBDA p :
         With(IF (Len(str) + p) % K1 # 0 THEN p + (K1 - ((Len(str) + p) % K1)) ELSE p,
              LAMBDA q : IF zero THEN Zeros(q) ELSE Zeros(q) \o str))

\* Bin(x) for a Hex number x
BinOfHex(ds) ==
  Bin(T3Number_preserve_leading_zeros(BitsOfInt(IntOfBytes(ds)), IntOfBytes(ds) = 0,
                                      LeadingZeroDigits(ds), 2, 8))

\* bits.zfill(len(bits) + 8 - k) when k = len(bits) % 8 is not 0
PadToByte(v) ==
  IF Len(v.digits) % 8 # 0 THEN Bin(ZFill(v.digits, Len(v.digits) + 8 - (Len(v.digits) % 8)))
  ELSE v

\* the bits of T3Bitmap.match for data that is a Bin, a Hex or an integer
BitmapBits(data) ==
  CASE data.kind = "Bin" -> data
    [] data.kind = "Hex" -> PadToByte(BinOfHex(data.digits))
    [] data.kind = "Int" -> PadToByte(Bin(BitsOfInt(data.int)))
    [] OTHER -> NULL

\* bits[a:b] of T3Number.__getitem__; NULL[a:b] is a _NullNumber
BitSlice(v, a, b) ==
  IF v.kind # "Bin" THEN NULL
  ELSE BinSlice(SubSeq(v.digits, a + 1, Min(b, Len(v.digits))))

\* len(v) of a Bin number or NULL
BitLen(v) == IF v.kind = "Bin" THEN Len(v.digits) ELSE 0

\* a == b for Bin numbers and NULL: _int of a Bin, an isinstance test of NULL
BitEq(a, b) ==
  IF a.kind = "NULL" THEN b.kind = "NULL"
  ELSE StripZeros(a.digits) = StripZeros(b.digits)

\* T3PatternSection.match over bits
BitSection_match(h, st, count, data) ==
  IF BitLen(BitSlice(data, 0, count)) = count
  THEN M(h, st, BitSlice(data, 0, count), BitSlice(data, count, BitLen(data)), FALSE, "")
  ELSE M(h, st, None, data, TRUE, "")

\* T3PatternTable(fields).match(bits) for the section fields idxs of table c
RECURSIVE BitTable_match(_, _, _, _, _)
BitTable_match(h, st, c, idxs, data) ==
  IF idxs = <<>> THEN M(h, st, None, data, TRUE, "IndexError")
  ELSE With(BitSection_match(h, st, h[c].fields[Head(idxs)].pattern.n, data), LAMBDA m :
         IF m.fail THEN m
         ELSE IF Len(idxs) = 1
         THEN [m EXCEPT !.h = [m.h EXCEPT ![c].fields[Head(idxs)].value = m.value]]
         ELSE With(BitTable_match([m.h EXCEPT ![c].fields[Head(idxs)].value = m.value],
                                  st, c, Tail(idxs), m.rest), LAMBDA q :
                IF q.err # "" THEN q
                ELSE IF q.fail /\ q.value.kind = "None" THEN [q EXCEPT !.value = m.value]
                ELSE [q EXCEPT !.value =
                        BitSlice(data, 0, BitLen(m.value) + BitLen(q.value))]))

\* Bin.bytes(): the first len % 8 bits, then eight bits at a time
RECURSIVE IntOfBits(_)
IntOfBits(bs) == IF bs = <<>> THEN 0 ELSE IntOfBits(Front(bs)) * 2 + bs[Len(bs)]

RECURSIVE BytesOfBits(_)
BytesOfBits(bs) ==
  IF bs = <<>> THEN <<>>
  ELSE IF Len(bs) % 8 # 0
  THEN <<IntOfBits(SubSeq(bs, 1, Len(bs) % 8))>>
       \o BytesOfBits(SubSeq(bs, (Len(bs) % 8) + 1, Len(bs)))
  ELSE <<IntOfBits(SubSeq(bs, 1, 8))>> \o BytesOfBits(SubSeq(bs, 9, Len(bs)))

\* T3Bitmap.match: the match of T3Table over the bits, then the rest as a
\* number of the class of the data when it is not zero
T3Bitmap_match(h, st, t, data) ==
  With(BitmapBits(data), LAMBDA bits :
    With(T3Table_copy(h, t), LAMBDA c :
      With(BitTable_match(c.h, st, c.x, EnabledIdxs(c.h[c.x].fields, 1), bits), LAMBDA m :
        With(IF m.err # "" \/ m.fail THEN m
             ELSE IF BitEq(m.rest, bits) THEN [m EXCEPT !.fail = TRUE]
             ELSE [m EXCEPT !.value = Tbl(c.x), !.h = T3Table_auto_parent(m.h, c.x)],
             LAMBDA r :
          IF r.rest.kind = "Bin" /\ StripZeros(r.rest.digits) # <<>> /\ data.kind = "Hex"
          THEN [r EXCEPT !.rest = Hex(BytesOfBits(r.rest.digits))]
          ELSE r))))

\* btmp = T3Bitmap(); btmp.add(w, A = 1) for each width w of ws
RECURSIVE BitmapAdd(_, _, _)
BitmapAdd(h, ws, i) ==
  IF i > Len(ws) THEN h
  ELSE BitmapAdd([h EXCEPT ![1].fields =
                    Append(@, Fld(<<"A", "B", "C">>[i], T3PatternSection(ws[i]),
                                  Bin(<<1>>), NoBinding))], ws, i + 1)

BitmapHeap(ws) == BitmapAdd(<<Tab("T3Bitmap", <<>>, 0)>>, ws, 1)

\* the bitmaps of test_btmp, and one of two bytes in three fields
BitmapWidths == {<<2, 6>>, <<2, 8>>, <<2, 15>>, <<6, 15, 3>>, <<2, 6, 8>>}

\* the data of test_btmp, as a Hex number and as an integer, and numbers of
\* one and two bytes
BitmapData ==
  {Hex(s) : s \in SeqsUpTo({0, 12, 140, 204}, 2) \ {<<>>}}
    \cup {Hex(<<140, 192, 16>>), PyInt(9224208), PyInt(12), PyInt(0)}

InitBitmap ==
  /\ heap \in {BitmapHeap(ws) : ws \in BitmapWidths}
  /\ stack = <<>>
  /\ last = Last("init", 0, "", None, None, None, FALSE, "", 0)
  /\ ops = 0

\* m = btmp.match(data)
BitmapMatch(t, d) ==
  /\ ops < MaxBitmapOps
  /\ heap[t].cls = "T3Bitmap"
  /\ With(T3Bitmap_match(heap, stack, t, d), LAMBDA m :
       /\ stack' = m.st
       /\ heap' = IF m.err = "" /\ ~m.fail THEN m.h ELSE heap
       /\ last' = Last("bitmap", t, "", d, m.value, m.rest, m.fail, m.err, Len(heap)))
  /\ ops' = ops + 1

NextBitmap == \E t \in DOMAIN heap, d \in BitmapData : BitmapMatch(t, d)

SpecBitmap == InitBitmap /\ [][NextBitmap]_vars

\* the bits of a byte, most significant first
BitsOfByte(b) == ZFill(BitsOfInt(b), 8)

RECURSIVE BitsOfBytes(_)
BitsOfBytes(ds) == IF ds = <<>> THEN <<>> ELSE BitsOfByte(Head(ds)) \o BitsOfBytes(Tail(ds))

\* the bit string of the input, zero-padded to a byte multiple
InputBits(d) ==
  IF d.kind = "Hex" THEN BitsOfBytes(d.digits)
  ELSE ZFill(BitsOfInt(d.int), 8 * ((Len(BitsOfInt(d.int)) + 7) \div 8))

\* w0 + ... + w(i-1) for the fields of table t (i counts from 1)
RECURSIVE BitOffset(_, _, _)
BitOffset(h, t, i) == IF i <= 1 THEN 0 ELSE BitOffset(h, t, i - 1) + h[t].fields[i - 1].pattern.n

(* C21 (Bitmap): field i of a Bitmap receives the w_i bits at the offsets   *)
(* [w0+...+w(i-1), w0+...+w_i) of the input zero-padded to a byte multiple: *)
(* when the input has that many bits the match succeeds with exactly these  *)
(* bits in every field, and when it has fewer the match fails.              *)
C21_BitmapSlices ==
  last.op = "bitmap"
    => IF BitOffset(heap, last.t, NFields(heap, last.t) + 1) <= Len(InputBits(last.arg))
       THEN /\ last.err = "" /\ ~last.fail
            /\ \A i \in 1..NFields(heap, last.t) :
                 heap[last.res.tid].fields[i].value =
                   Bin(SubSeq(InputBits(last.arg), BitOffset(heap, last.t, i) + 1,
                              BitOffset(heap, last.t, i + 1)))
       ELSE last.fail

----------------------------------------------------------------------------
(* Equality of numbers: a == b for Hex numbers, NULL and T3Number(None).   *)

Numbers == DataSet \cup {NULL, Neg}

InitEq ==
  /\ heap = EmptyHeap
  /\ stack = <<>>
  /\ last = Last("init", 0, "", None, None, None, FALSE, "", 0)
  /\ ops = 0

\* r = (a == b); a is kept in arg, b in rest, r in fail
Compare(a, b) ==
  /\ ops < MaxOps
  /\ last' = Last("eq", 0, "", a, None, b, PyEq(a, b), "", Len(heap))
  /\ ops' = ops + 1
  /\ UNCHANGED <<heap, stack>>

NextEq == \E a \in Numbers, b \in Numbers : Compare(a, b)

SpecEq == InitEq /\ [][NextEq]_vars

(* C22 (NULL equality): NULL compares equal only to itself: NULL == x and   *)
(* x == NULL are false for every number x that is not NULL, also when the   *)
(* integer of x is 0, and NULL == NULL is true.                             *)
C22_NullEqualsOnlyItself ==
  (last.op = "eq" /\ (last.arg = NULL \/ last.rest = NULL))
    => (last.fail <=> (last.arg = NULL /\ last.rest = NULL))

----------------------------------------------------------------------------
(* Base conversion: Hex(Bin(Hex(x))) for a hex numeral x of an even number *)
(* of digits.  A Hex number of the model is its bytes; its digit string    *)
(* has two digits a byte.                                                  *)

\* the digit string of a Hex number given by its bytes
RECURSIVE HexDigits(_)
HexDigits(ds) ==
  IF ds = <<>> THEN <<>> ELSE <<Head(ds) \div 16, Head(ds) % 16>> \o HexDigits(Tail(ds))

\* T3Number._from_integer(n, 16): the digits of n, "0" for 0
RECURSIVE DigitsOfInt(_)
DigitsOfInt(n) == IF n < 16 THEN <<n>> ELSE Append(DigitsOfInt(n \div 16), n % 16)

\* "0" + s when s has an odd number of digits
EvenDigits(s) == IF Len(s) % 2 = 1 THEN <<0>> \o s ELSE s

\* the loop of _preserve_leading_zeros over a digit string
RECURSIVE LeadingZeros(_)
LeadingZeros(s) == IF s # <<>> /\ Head(s) = 0 THEN 1 + LeadingZeros(Tail(s)) ELSE 0

\* Hex(b) for a Bin number b, as a digit string: Hex._from_integer,
\* _preserve_leading_zeros, then the left pad of Hex.__init__
HexOfBin(bs) ==
  EvenDigits(T3Number_preserve_leading_zeros(EvenDigits(DigitsOfInt(IntOfBits(bs))),
                                             IntOfBits(bs) = 0, LeadingZeros(bs), 8, 2))

\* the hex numerals: one to three bytes
HexSet == {Hex(s) : s \in SeqsUpTo({0, 1, 15, 16, 255}, 3) \ {<<>>}}

InitBase ==
  /\ heap = EmptyHeap
  /\ stack = <<>>
  /\ last = Last("init", 0, "", None, None, None, FALSE, "", 0)
  /\ ops = 0

\* b = Bin(x); y = Hex(b): x is kept in arg, b in rest, the digits of y in res
Convert(x) ==
  /\ ops < MaxOps
  /\ last' = Last("base", 0, "", x, Val("Digits", HexOfBin(BinOfHex(x.digits).digits), 0, <<>>, 0),
                  BinOfHex(x.digits), FALSE, "", Len(heap))
  /\ ops' = ops + 1
  /\ UNCHANGED <<heap, stack>>

NextBase == \E x \in HexSet : Convert(x)

SpecBase == InitBase /\ [][NextBase]_vars

\* _int of a digit string of base 16
RECURSIVE IntOfDigits(_)
IntOfDigits(s) == IF s = <<>> THEN 0 ELSE IntOfDigits(Front(s)) * 16 + s[Len(s)]

(* C23 (base closure): for every hex numeral x of an even number of digits  *)
(* Hex(Bin(Hex(x))) equals x and has the digit string of x: leading zero    *)
(* bytes, and an all-zero x of any length, survive the round trip.          *)
C23_BaseClosure ==
  last.op = "base"
    => /\ IntOfDigits(last.res.digits) = IntOfBytes(last.arg.digits)
       /\ last.res.digits = HexDigits(last.arg.digits)

\* a round trip of a numeral of leading zero bytes has been made
C23_Witness ==
  /\ last.op = "base"
  /\ Len(last.arg.digits) > 1 /\ last.arg.digits[1] = 0
  /\ Len(last.rest.digits) = 8 * Len(last.arg.digits)
  /\ last.res.digits = HexDigits(last.arg.digits)

----------------------------------------------------------------------------
(* A table match field by field.  T3Table.match copies the table and       *)
(* T3PatternTable.match evaluates the pattern of the first field, stores   *)
(* the matched value in that field of the copy and goes on with the other  *)
(* fields on the rest.  Here each evaluation is a step: last holds the     *)
(* prototype t, the copy c, the data d, the binding stack st0 at the start *)
(* of the match, the fields idxs still to be matched, the field i          *)
(* evaluated by the last step, the data arg it was applied to and the      *)
(* T3Match (res, rest, fail) it returned.                                  *)

SeqLast(op, t, c, d, st0, idxs, i, arg, res, rest, fail, err) ==
  [op |-> op, t |-> t, c |-> c, d |-> d, st0 |-> st0, idxs |-> idxs, i |-> i,
   arg |-> arg, res |-> res, rest |-> rest, fail |-> fail, err |-> err]

\* the whole data instead of the rest
FieldData_whole(l) == l.d

\* the data of the next field: the data of the match for the first field,
\* m.rest of the field before for the others
FieldData(l) == l.rest

\* T = T3Table().add(T3Table().add(2, X = 0), A = 0).add(2, B = 0): a table
\* whose first field is matched by a table, as the bitmaps of test_btmp are
NestedFieldHeap ==
  LET h1 == T3Table_add(<<Tab("T3Table", <<>>, 0), Tab("T3Table", <<>>, 0)>>, 2,
                        T3PatternSection(2), "X", Byte00, NoBinding)
      h2 == T3Table_add(h1, 1, PatTable(2), "A", Byte00, NoBinding)
  IN T3Table_add(h2, 1, T3PatternSection(2), "B", Byte00, NoBinding)

InitSeq ==
  /\ heap \in Prototypes \cup {NestedFieldHeap}
  /\ stack = <<>>
  /\ last = SeqLast("init", 0, 0, None, <<>>, <<>>, 0, None, None, None, FALSE, "")
  /\ ops = 0

\* T3Table.match up to P = T3PatternTable(fields)
SeqBegin(t, d) ==
  /\ ops < MaxOps
  /\ last.op \in {"init", "end"}
  /\ heap[t].cls = "T3Table"
  /\ With(T3Table_copy(heap, t), LAMBDA c :
       /\ heap' = c.h
       /\ last' = SeqLast("begin", t, c.x, d, stack, EnabledIdxs(c.h[c.x].fields, 1), 0,
                          None, None, d, FALSE, ""))
  /\ ops' = ops + 1
  /\ UNCHANGED stack

\* one level of T3PatternTable.match: the pattern of the first field of
\* idxs is evaluated and its value stored; an Any field followed by other
\* fields searches its extent over the match of all the fields after it
SeqField ==
  /\ last.op \in {"begin", "field"}
  /\ ~last.fail /\ last.err = "" /\ last.idxs # <<>>
  /\ With(Head(last.idxs), LAMBDA i :
       IF Len(last.idxs) > 1 /\ heap[last.c].fields[i].pattern.kind = "Any"
       THEN With(AnyLoop(heap, stack, last.c, last.idxs, FieldData(last),
                         PyLen(FieldData(last), 0) - 1), LAMBDA m :
              /\ stack' = m.st
              /\ heap' = m.h
              /\ last' = [last EXCEPT !.op = "field", !.idxs = <<>>, !.i = i,
                                      !.arg = FieldData(last), !.res = m.value,
                                      !.rest = m.rest, !.fail = m.fail, !.err = m.err])
       ELSE With(PatMatch(heap, stack, last.c, heap[last.c].fields[i].pattern,
                          FieldData(last)), LAMBDA m :
              /\ stack' = m.st
              /\ heap' = IF m.err # "" \/ m.fail THEN m.h
                         ELSE [m.h EXCEPT ![last.c].fields[i].value = m.value]
              /\ last' = [last EXCEPT !.op = "field", !.idxs = Tail(last.idxs), !.i = i,
                                      !.arg = FieldData(last), !.res = m.value,
                                      !.rest = m.rest, !.fail = m.fail, !.err = m.err]))
  /\ UNCHANGED ops

\* the end of T3Table.match: a failure of a field is the failure of the
\* match; a match that left the data as it was fails; else the copy is the
\* value
SeqEnd ==
  /\ last.op \in {"begin", "field"}
  /\ last.fail \/ last.err # "" \/ last.idxs = <<>>
  /\ IF last.op = "begin"
     THEN /\ last' = [last EXCEPT !.op = "end", !.fail = TRUE, !.err = "IndexError"]
          /\ UNCHANGED heap
     ELSE IF last.fail \/ last.err # ""
     THEN /\ last' = [last EXCEPT !.op = "end"]
          /\ UNCHANGED heap
     ELSE IF PyEq(last.rest, last.d)
     THEN /\ last' = [last EXCEPT !.op = "end", !.fail = TRUE]
          /\ UNCHANGED heap
     ELSE /\ last' = [last EXCEPT !.op = "end", !.res = Tbl(last.c)]
          /\ heap' = T3Table_auto_parent(heap, last.c)
  /\ UNCHANGED <<stack, ops>>

NextSeq ==
  \/ \E t \in DOMAIN heap, d \in DataSet : SeqBegin(t, d)
  \/ SeqField
  \/ SeqEnd

SpecSeq == InitSeq /\ [][NextSeq]_vars

\* the steps give the match of T3Table.match
SeqIsMatch ==
  last.op = "end"
    => With(T3Table_match(SubSeq(heap, 1, last.c - 1), last.st0, last.t, last.d), LAMBDA m :
         /\ m.err = last.err
         /\ m.fail = last.fail
         /\ m.err = "" => (m.h = heap /\ m.st = stack /\ m.rest = last.rest))

\* a step that evaluates the pattern of a field
SeqFieldStep ==
  /\ last'.op = "field"
  /\ last'.i = Head(last.idxs)
  /\ last'.arg = last.rest
  /\ last.op = "field" => heap[last.c].fields[last.i].value = last.res
  /\ \A j \in 1..NFields(heap, last.c) : j < last'.i =>
       heap'[last.c].fields[j] = heap[last.c].fields[j]

\* the step after a failure
SeqFailStep ==
  (last.op = "field" /\ last.fail) => (last'.op = "end" /\ last'.fail /\ heap' = heap)

----------------------------------------------------------------------------
(* The value of a failed match: T3PatternTable.match hands the failure of  *)
(* a field up through the fields before it, each adding its own length.    *)

\* the value of the T3Match that T3Table.match returns for the match in
\* progress
MatchValue ==
  T3Table_match(SubSeq(heap, 1, last.c - 1), last.st0, last.t, last.d).value

\* the prefix of the data that was matched when field last.i failed: what
\* the fields before it consumed and, when the failing field is a table
\* that matched some of its own fields, what these consumed
MatchedPrefix ==
  SliceTo(last.d, (PyLen(last.d, 0) - PyLen(last.arg, 0))
                    + (IF last.res.kind = "Hex" THEN PyLen(last.res, 0) ELSE 0))

(* C25 (failure position): when a table match fails at field i the value of *)
(* the returned Match is the prefix of the input that the matched fields    *)
(* consumed, None when nothing was matched, so that its length is the       *)
(* number of bytes of the longest matched prefix.                           *)
C25_FailurePosition ==
  (last.op = "field" /\ last.fail /\ last.err = "")
    => MatchValue = (IF MatchedPrefix = NULL THEN None ELSE MatchedPrefix)

----------------------------------------------------------------------------
(* Disabled fields: a field whose value is None.                           *)

\* table t without its disabled fields
RECURSIVE EnabledFields(_, _)
EnabledFields(fs, i) ==
  IF i > Len(fs) THEN <<>>
  ELSE (IF Enabled(fs[i]) THEN <<fs[i]>> ELSE <<>>) \o EnabledFields(fs, i + 1)

\* the step assigns to field i of table t: T.name = v with the name of the field
AssignsTo(t, i) ==
  last'.op = "set" /\ last'.t = t /\ last'.name = heap[t].fields[i].name

\* a disabled field that the step does not assign to is disabled after it
StaysDisabled ==
  \A t \in DOMAIN heap : \A i \in 1..NFields(heap, t) :
    (heap[t].fields[i].value = None /\ ~AssignsTo(t, i) /\ t \in DOMAIN heap'
       /\ i <= NFields(heap', t))
      => heap'[t].fields[i].value = None

\* the disabled fields of the prototype are disabled in the matched copy, and
\* a synthesis is the synthesis of the enabled fields
DisabledIsAbsent ==
  /\ (last.op = "match" /\ last.err = "" /\ ~last.fail) =>
       \A i \in 1..NFields(heap, last.t) :
         heap[last.t].fields[i].value = None => heap[last.res.tid].fields[i].value = None
  /\ (last.op = "synth" /\ last.err = "") =>
       last.res = T3Table_get_value(
                    [heap EXCEPT ![last.t].fields = EnabledFields(heap[last.t].fields, 1)],
                    stack, last.t).v

(* C26 (disabled fields): a field whose value is None takes no part in      *)
(* match and synthesis, and it stays disabled until a value is assigned to  *)
(* that field itself: no assignment to another field re-enables it, also    *)
(* when it has a binding.                                                   *)
C26_DisabledStaysDisabled == []DisabledIsAbsent /\ [][StaysDisabled]_vars

----------------------------------------------------------------------------
(* C27 (binding stack): the binding stack is empty whenever no read is in   *)
(* progress: after a read of a field has returned or has raised, whatever   *)
(* the error, _binding_stack holds no entry.                                *)
C27_StackEmptyAfterRead == last.op = "read" => stack = <<>>

----------------------------------------------------------------------------
(* Parent links.                                                            *)

\* some field of table p has table t as its value
Holds(h, p, t) == \E i \in 1..NFields(h, p) : h[p].fields[i].value = Tbl(t)

(* C28 (parent links): in every reachable state a table t has parent p if   *)
(* and only if some field of p has t as its value.                          *)
C28_ParentIsContainer ==
  \A t \in DOMAIN heap : \A p \in DOMAIN heap :
    heap[t].parent = p <=> Holds(heap, p, t)

----------------------------------------------------------------------------
(* C29 (rejected assignment): an assignment to a field that raises an error *)
(* changes nothing: every field of the tree, the bound fields that hold     *)
(* matched values included, keeps its stored value, and the synthesis of    *)
(* the tree is what it was before.                                          *)
C29_RejectedAssignment ==
  [][(last'.op = "set" /\ last'.err # "")
       => /\ heap' = heap
          /\ T3Table_get_value(heap', stack, last'.t) = T3Table_get_value(heap, stack, last'.t)]_vars

----------------------------------------------------------------------------
(* The loop of T3Repeater.match, one iteration a step.  last holds the     *)
(* repeater P, the data d, the rest R, the number i of successful          *)
(* applications and the list lst of their values.                          *)

\* iterations of a loop that the model follows; a loop over at most MaxData
\* bytes that consumes a byte with each success ends before
MaxIter == 5

LoopLast(op, P, d, R, i, lst, fail, err) ==
  [op |-> op, P |-> P, d |-> d, R |-> R, i |-> i, lst |-> lst, fail |-> fail, err |-> err]

\* T3Repeater(E, mn) with the default maximum, as the pattern of the field
\* Data of table 1, for a repeated table E (table 2) that is the table of
\* test_list, a table of one field of one byte, a table of one "*" field,
\* and the Apdu of test_apdu
LoopHeaps ==
  LET h0 == <<Tab("T3Table", <<>>, 0), Tab("T3Table", <<>>, 0)>>
      d1 == T3Table_add(h0, 1, T3PatternSection(1), "Lc", NULL, Bnd(5, "data_len", "Data"))
      one == T3Table_add(d1, 2, T3PatternSection(1), "X", Byte00, NoBinding)
      any == T3Table_add(d1, 2, T3PatternAny, "A", Byte00, NoBinding)
      apdu == T3Table_add(one, 2, T3PatternAny, "A", Byte00, NoBinding)
  IN {RepHeap(mn, MAXSIZE) : mn \in 0..1}
       \cup {T3Table_add(e, 1, T3Repeater(2, mn, MAXSIZE), "Data", Byte00, NoBinding) :
               e \in {one, any, apdu}, mn \in 0..1}

InitLoop ==
  /\ heap \in LoopHeaps
  /\ stack = <<>>
  /\ last = LoopLast("init", T3PatternAny, None, None, 0, <<>>, FALSE, "")
  /\ ops = 0

\* T3Repeater.match up to the loop, for the repeater of field f of table t
LoopBegin(t, f, d) ==
  /\ ops < MaxOps
  /\ last.op \in {"init", "done"}
  /\ heap[t].fields[f].pattern.kind = "Repeater"
  /\ last' = LoopLast("loop", heap[t].fields[f].pattern, d, Coerce(d), 0, <<>>, FALSE, "")
  /\ ops' = ops + 1
  /\ UNCHANGED <<heap, stack>>

\* the test of the loop and one iteration
LoopIter ==
  /\ last.op = "loop"
  /\ last.i < MaxIter
  /\ IF last.i >= last.P.m
     THEN /\ last' = [last EXCEPT !.op = "done"]
          /\ UNCHANGED <<heap, stack>>
     ELSE With(T3Table_match(heap, stack, last.P.tid, last.R), LAMBDA m :
            /\ stack' = m.st
            /\ heap' = m.h
            /\ last' = IF m.err # "" THEN [last EXCEPT !.op = "done", !.err = m.err]
                       ELSE IF m.fail
                       THEN [last EXCEPT !.op = "done", !.fail = last.i < last.P.n]
                       ELSE [last EXCEPT !.R = m.rest, !.i = last.i + 1,
                                         !.lst = Append(last.lst, m.value.tid)])
  /\ UNCHANGED ops

NextLoop ==
  \/ \E t \in DOMAIN heap, d \in DataSet :
       \E f \in 1..NFields(heap, t) : LoopBegin(t, f, d)
  \/ LoopIter

SpecLoop == InitLoop /\ [][NextLoop]_vars

\* the bytes of a rest
RestLen(v) == IF v.kind = "Hex" THEN Len(v.digits) ELSE 0

\* an iteration that succeeded
LoopSuccess == last.op = "loop" /\ last'.op = "loop" /\ last'.i = last.i + 1

(* C30 (termination of the repeater): every successful application of the   *)
(* repeated table consumes at least one byte, so the rest gets strictly     *)
(* shorter with each iteration and the loop, also with the default maximum, *)
(* makes no more successful applications than the data has bytes.           *)
C30_RepeaterTerminates ==
  /\ [](last.op \in {"loop", "done"} => last.i <= RestLen(last.d))
  /\ [][LoopSuccess => RestLen(last'.R) < RestLen(last.R)]_vars

====
